---- MODULE Spec2Model ----
(***************************************************************************)
(* Commit monitors of jenkins-pa-automation:                               *)
(*   utils_pa.commit_changes                  (multi-device, strict)       *)
(*   Step03_HAConfig.commit_changes           (multi-device, lenient)      *)
(*   step_06_commit Step06_CommitSync._commit_changes  (one device)        *)
(*   step_10_commit Step06_CommitSync._commit_changes  (one device)        *)
(* and the callers and followers of these monitors:                        *)
(*   Step03_HAConfig.execute from its commit on, with force_enable_ha      *)
(*   _force_sync_config and _wait_for_sync_completion of step_06_commit    *)
(*   and of step_10_commit                                                 *)
(* One behaviour is one call of one of them; the devices' answers are the  *)
(* inputs, drawn anew at every request.  Time is in seconds.               *)
(***************************************************************************)
EXTENDS Integers, Sequences, FiniteSets, TLC

VARIABLES
    op,              \* which commit monitor this behaviour runs
    pa_credentials,  \* input list of devices (active_fw_list in the one-device steps)
    api_keys_list,   \* input list of headers, paired with pa_credentials by index
    pc,              \* position in the function
    i,               \* index of the next device in the commit-request loop
    jobid_dict,      \* insertion-ordered dict: unique_key -> job_info
    ready_devices,   \* keys of the ready_devices dict (hosts)
    completed_jobs,  \* list of unique keys completed in this iteration
    queue,           \* rest of jobid_dict.items() in the running for loop
    jobid,           \* the job id of the one-device monitors
    clock,           \* time.time(), counted from the start of the running call
    start_time,      \* start_time
    result,          \* return value: "running", "True", "False"
    results_commit,  \* results['commit'] of the one-device monitors
    \* history of the call
    commitSent,      \* hosts a commit request was sent to, in order
    commitResp,      \* per input index, the commit response received
    lastPoll,        \* the latest job-status poll and its answer
    polled,          \* hosts a job-status poll was addressed to
    iters,           \* number of iterations of the monitor loop begun (saturating)
    finOK,           \* hosts a poll of which answered FIN with result OK
    finSeen,         \* hosts a poll of which answered FIN
    scenario,        \* how many polls of ScenarioPolls the call has matched, or -1
    iterKeys,        \* unique keys pending when the running iteration began
    iterPolled,      \* unique keys polled so far in the running iteration
    timedOut,        \* the loop condition found the deadline elapsed, jobs pending
    latePoll,        \* a poll was sent after the deadline had elapsed
    call,            \* which call of commit_changes Step03_HAConfig.execute is in
    \* HA synchronisation
    check,           \* number of checks of _wait_for_sync_completion begun
    results_ha_sync, \* results['ha_sync']
    wait_result,     \* return value of _wait_for_sync_completion, "none" before
    firstState,      \* running-sync of the first state query, "none" before
    triggers,        \* number of sync-to-remote requests sent
    statePolls,      \* number of HA state queries sent
    syncScenario,    \* how many answers of SyncScenario the call has matched, or -1
    lastState,       \* what the latest HA state query reported, "none" before
    triggerAnswer,   \* how the sync-to-remote request was answered, "none" before
    sawSync,         \* some HA state query of the call reported synchronized
    lastQuery,       \* how the latest HA state query was answered, "none" before
    unslept,         \* hosts whose job was polled since the monitor last slept
    repollNoSleep,   \* a job was polled twice with no sleep in between
    blob,            \* the state file the step finds when it starts
    attempt,         \* the resolver's attempt, counted from 0; -1 before the first
    dev,             \* position of the resolver's device loop in pa_credentials
    active_fw_list,  \* the devices found active in the running attempt
    active_fw_headers, \* their keys
    attemptAnswers,  \* how each query of the running attempt was answered
    activeAt,        \* <<attempt, position>> of the first report of active
    fallback_warning, \* the fallback warning was logged
    active_fw_data,  \* the state file the resolver writes, once it is written
    commit_sync_data, \* the state file a commit-and-sync step writes
    files,           \* the keys of each state file the pipeline has written
    stage,           \* the pipeline step that runs next
    key_error,       \* the step that failed for a key missing in its input
    sent,            \* the requests and calls a configuration step has made, in order
    output,          \* the state file a configuration step writes, once it is written
    configured_devices, \* Step03: the hosts whose HA configuration was acknowledged
    changes_made,    \* Step02: a set request was acknowledged
    iface,           \* Step02: position of the interface loop
    device_status,   \* what discovery recorded for each host, if it was found
    args_step,       \* main: the --step argument
    exit_status,     \* main: the exit status of the process, -1 while it runs
    interfaces       \* step_02: the HA interfaces named by the form parameters

vars == <<op, pa_credentials, api_keys_list, pc, i, jobid_dict, ready_devices,
          completed_jobs, queue, jobid, clock, start_time, result, results_commit,
          commitSent, commitResp, lastPoll, polled, iters, finOK, finSeen,
          scenario, iterKeys, iterPolled, timedOut, latePoll, call, check,
          results_ha_sync, wait_result, firstState, triggers, statePolls,
          syncScenario, lastState, triggerAnswer, sawSync, lastQuery, unslept,
          repollNoSleep, blob, attempt, dev, active_fw_list, active_fw_headers,
          attemptAnswers, activeAt, fallback_warning, active_fw_data,
          commit_sync_data, files, stage, key_error, sent, output,
          configured_devices, changes_made, iface, device_status, args_step,
          exit_status, interfaces>>

syncState ==
    <<check, results_ha_sync, wait_result, firstState, triggers, statePolls, syncScenario,
      lastState, triggerAnswer, sawSync, lastQuery>>

\* the state of the steps that run around the commit and the sync
stepState ==
    <<blob, attempt, dev, active_fw_list, active_fw_headers, attemptAnswers, activeAt,
      fallback_warning, active_fw_data, commit_sync_data, files, stage, key_error,
      sent, output, configured_devices, changes_made, iface, device_status, args_step,
      exit_status, interfaces>>

\* the state of the configuration steps and of main
configState ==
    <<sent, output, configured_devices, changes_made, iface, device_status, args_step,
      exit_status, interfaces>>

\* what the configuration steps and main leave alone
otherState ==
    <<attempt, active_fw_list, active_fw_headers, attemptAnswers, activeAt,
      fallback_warning, active_fw_data, commit_sync_data, files, stage, key_error>>

progVars == <<op, pa_credentials, api_keys_list>>

(***************************************************************************)
(* Bounds of the model                                                     *)
(***************************************************************************)
MaxDevices == 2
MaxIterCount == 3

(***************************************************************************)
(* Program constants                                                       *)
(***************************************************************************)
utils_max_wait_time == 600
Step03_max_wait_time == 300
Step06_max_wait_time == 300
PollSleep == 15
MissSleep == 10
Step04_max_attempts == 5
Step04_ha_wait == 30
Step04_wait_time == 15

(***************************************************************************)
(* Inputs                                                                  *)
(***************************************************************************)
HostNames == <<"fw1", "fw2", "fw3", "fw4">>
KeyNames == <<"k1", "k2", "k3", "k4">>
JobIds == {"7", "8"}

\* Python's None, as returned by findtext for a missing element
None == "<None>"

\* time one HTTP request may take: none, or the whole request timeout
RequestTimes == {0, 30}

\* what a device may answer to a commit request
CommitResponses ==
    {[error |-> TRUE, status_code |-> 0, has_result |-> FALSE, job |-> None],
     [error |-> FALSE, status_code |-> 500, has_result |-> FALSE, job |-> None],
     [error |-> FALSE, status_code |-> 200, has_result |-> FALSE, job |-> None]}
    \cup {[error |-> FALSE, status_code |-> 200, has_result |-> TRUE, job |-> j] :
             j \in {None, ""} \cup JobIds}

\* what a device may answer to a job-status poll
\* (error with status_code 0: the request raised; error with status_code 200: the
\* body of the answer is not XML and ET.fromstring raised)
PollResponses ==
    {[error |-> TRUE, status_code |-> 0, has_job |-> FALSE, status |-> None, result |-> ""],
     [error |-> TRUE, status_code |-> 200, has_job |-> FALSE, status |-> None, result |-> ""],
     [error |-> FALSE, status_code |-> 500, has_job |-> FALSE, status |-> None, result |-> ""],
     [error |-> FALSE, status_code |-> 200, has_job |-> FALSE, status |-> None, result |-> ""],
     [error |-> FALSE, status_code |-> 200, has_job |-> TRUE, status |-> "ACT", result |-> ""],
     [error |-> FALSE, status_code |-> 200, has_job |-> TRUE, status |-> "PEND", result |-> ""],
     [error |-> FALSE, status_code |-> 200, has_job |-> TRUE, status |-> "FIN", result |-> "OK"],
     [error |-> FALSE, status_code |-> 200, has_job |-> TRUE, status |-> "FIN", result |-> "FAIL"]}

\* what a device may answer to a poll for job id: it reports a job only under an id
\* it has issued
PollAnswers(id) ==
    IF id \in JobIds THEN PollResponses ELSE {r \in PollResponses : ~r.has_job}

\* no commit response received yet; no poll sent yet
NoCommitResp == [error |-> FALSE, status_code |-> -1, has_result |-> FALSE, job |-> None]
NoPoll == [host |-> None, key |-> None, jobid |-> None, answer |-> None]

(***************************************************************************)
(* Python helpers                                                          *)
(***************************************************************************)
\* truth value of a findtext result
Truthy(s) == s # None /\ s # ""

\* str() as an f-string applies it
Str(s) == IF s = None THEN "None" ELSE s

\* dict[key] = value on an insertion-ordered dict
DictSet(d, e) ==
    IF \E n \in 1..Len(d) : d[n].key = e.key
    THEN [n \in 1..Len(d) |-> IF d[n].key = e.key THEN e ELSE d[n]]
    ELSE Append(d, e)

\* del dict[key]
DictDel(d, k) == SelectSeq(d, LAMBDA e : e.key # k)

DictKeys(d) == [n \in 1..Len(d) |-> d[n].key]

RECURSIVE DictDelAll(_, _)
DictDelAll(d, ks) ==
    IF ks = <<>> THEN d ELSE DictDelAll(DictDel(d, Head(ks)), Tail(ks))

Range(s) == {s[n] : n \in 1..Len(s)}

\* the clock after d more seconds; values past every deadline are merged
ClockCap == utils_max_wait_time + 30
Later(c, d) == IF c + d > ClockCap THEN ClockCap ELSE c + d

N == Len(pa_credentials)
Hosts == {pa_credentials[n].host : n \in 1..N}
Bump(count) == IF count < MaxIterCount THEN count + 1 ELSE count

(***************************************************************************)
(* Initial state                                                           *)
(***************************************************************************)
\* the behaviours that run Step03_HAConfig.commit_changes
Step03Ops == {"step03", "step03_execute"}

\* the behaviours on the one active device of active_fw_list
OneDeviceOps ==
    {"step06", "step10", "step06_sync", "step10_sync", "step06_execute", "step10_execute"}

\* the operations that run each function of the two commit-and-sync steps
Step06CommitOps == {"step06", "step06_execute"}
Step10CommitOps == {"step10", "step10_execute"}
Step06SyncOps == {"step06_sync", "step06_execute"}
Step10SyncOps == {"step10_sync", "step10_execute"}
ExecuteOps == {"step06_execute", "step10_execute"}

\* the state files of the pipeline
FileNames ==
    {"api_keys_data", "discovery_data", "ha_interfaces_data", "ha_config_data",
     "active_fw_data", "firewall_config_data", "commit_sync_data"}

\* what a commit-and-sync step may find on disk: no state file, only the
\* resolver's active_fw_data.pkl, firewall_config_data.pkl as step_05 writes it
\* (with config_summary), or one with config_results, some or none 'success'
ExecuteBlobs ==
    {"absent", "active_fw_data", "config_summary", "config_results_success",
     "config_results_unchanged"}

\* no HA state query answered yet
NoState == "none"

\* the steps whose requests and written state file are kept in configState
ConfigOps ==
    {"step01", "step03_config", "step05_firewall_config", "step02", "step06_zones",
     "step00", "step05_interfaces"}

\* the steps that configure the active device alone
ActiveDeviceOps == {"step05_firewall_config", "step06_zones", "step05_interfaces"}

\* the step names main dispatches
main_steps == {"api_keys", "discovery", "ha_interfaces", "ha_config", "identify_active"}

\* values of --step: the names main knows, names of steps it does not
\* dispatch, a name of no step
StepNames == main_steps \cup {"firewall_config", "commit", "deploy"}

\* the interfaces discovery looks at: interfaces = ['ethernet1/4', 'ethernet1/5']
DiscoveredInterfaces == {"ethernet1/4", "ethernet1/5"}

\* HA1_INTERFACE and HA2_INTERFACE: not given, the pair discovery looks at,
\* a pair with an interface discovery does not look at
FormInterfaces ==
    {<<>>, <<"ethernet1/4", "ethernet1/5">>, <<"ethernet1/4", "ethernet1/6">>}

\* discovery_data.pkl is missing
NoDiscovery == [found |-> FALSE]

\* device_status of discovery_data.pkl: for each host the interfaces found to
\* carry <ha/> and whether zone entries were found
DeviceStatuses(devices, zonesFound) ==
    {NoDiscovery} \cup
    {[found |-> TRUE, ha_interfaces |-> h, zones |-> z] :
        h \in [{HostNames[d] : d \in devices} -> SUBSET DiscoveredInterfaces],
        z \in zonesFound}

Init ==
    /\ op \in {"utils", "step03", "step06", "step10", "step03_execute", "step06_sync",
                "step10_sync", "step04", "step06_execute", "step10_execute",
                "pipeline", "step01", "step03_config",
                "step05_firewall_config", "step02", "step06_zones", "main",
                "step00", "step05_interfaces"}
    /\ \E n \in 1..MaxDevices :
          /\ op \in OneDeviceOps \cup ActiveDeviceOps => n = 1
          /\ pa_credentials = [k \in 1..n |-> [host |-> HostNames[k]]]
          /\ api_keys_list = IF op = "step01" THEN <<>>
                             ELSE [k \in 1..n |-> [key |-> KeyNames[k]]]
          /\ commitResp = [k \in 1..n |-> NoCommitResp]
    /\ pc = CASE op \in {"step06_sync", "step10_sync"} -> "sync_query"
               [] op \in {"step04"} \cup ExecuteOps \cup ConfigOps -> "load"
               [] op = "pipeline" -> "step"
               [] op = "main" -> "dispatch"
               [] OTHER -> "commit"
    /\ i = 1
    /\ jobid_dict = <<>>
    /\ ready_devices = {}
    /\ completed_jobs = <<>>
    /\ queue = <<>>
    /\ jobid = None
    /\ clock = 0
    /\ start_time = 0
    /\ result = "running"
    /\ results_commit = "unset"
    /\ commitSent = <<>>
    /\ lastPoll = NoPoll
    /\ polled = {}
    /\ finOK = {}
    /\ iters = 0
    /\ finSeen = {}
    /\ scenario = 0
    /\ iterKeys = <<>>
    /\ iterPolled = <<>>
    /\ timedOut = FALSE
    /\ latePoll = FALSE
    /\ call = 1
    /\ check = 0
    /\ results_ha_sync = "unset"
    /\ wait_result = "none"
    /\ firstState = NoState
    /\ triggers = 0
    /\ statePolls = 0
    /\ syncScenario = 0
    /\ lastState = NoState
    /\ triggerAnswer = "none"
    /\ sawSync = FALSE
    /\ lastQuery = "none"
    /\ unslept = {}
    /\ repollNoSleep = FALSE
    /\ blob \in CASE op = "step04" -> {"ha_config_data", "absent"}
                  [] op = "step01" -> {"jenkins_parameters", "absent"}
                  [] op = "step03_config" ->
                        {"ha_interfaces_data", "no_template", "absent"}
                  [] op \in {"step05_firewall_config", "step06_zones",
                              "step05_interfaces"} ->
                        {"active_fw_data", "no_template", "absent"}
                  [] op \in {"step02", "step00"} -> {"api_keys_data", "absent"}
                  [] op \in ExecuteOps -> ExecuteBlobs
                  [] OTHER -> {"none"}
    /\ attempt = -1
    /\ dev = 0
    /\ active_fw_list = <<>>
    /\ active_fw_headers = <<>>
    /\ attemptAnswers = <<>>
    /\ activeAt = <<-1, 0>>
    /\ fallback_warning = FALSE
    /\ active_fw_data = [identification_completed |-> FALSE]
    /\ commit_sync_data = [commit_completed |-> FALSE]
    /\ files = [f \in FileNames |-> {}]
    /\ stage = 1
    /\ key_error = "none"
    /\ sent = <<>>
    /\ output = [written |-> FALSE]
    /\ configured_devices = <<>>
    /\ changes_made = FALSE
    /\ iface = 1
    /\ device_status \in
          CASE op = "step02" -> DeviceStatuses(DOMAIN pa_credentials, {FALSE})
            [] op = "step06_zones" -> DeviceStatuses({}, BOOLEAN)
            [] OTHER -> {NoDiscovery}
    /\ interfaces \in (IF op = "step02" THEN FormInterfaces ELSE {<<>>})
    /\ args_step \in (IF op = "main" THEN StepNames ELSE {"none"})
    /\ exit_status = -1

Done(value) == pc' = "done" /\ result' = value

\* the deadline of the running monitor (step_10_commit has none)
HasDeadline == op \in {"utils", "step03", "step03_execute", "step06", "step06_execute"}
Deadline ==
    CASE op = "utils" -> utils_max_wait_time
      [] op \in Step03Ops -> Step03_max_wait_time
      [] OTHER -> Step06_max_wait_time
Expired(t) == HasDeadline /\ t - start_time >= Deadline

IsFinOK(resp) ==
    ~resp.error /\ resp.status_code = 200 /\ resp.has_job /\ resp.status = "FIN"
    /\ resp.result = "OK"
IsFin(resp) ==
    ~resp.error /\ resp.status_code = 200 /\ resp.has_job /\ resp.status = "FIN"
IsAct(resp) ==
    ~resp.error /\ resp.status_code = 200 /\ resp.has_job /\ resp.status = "ACT"

\* what the device said, as the protocol reads it
Answer(resp) ==
    CASE resp.error /\ resp.status_code # 200 -> "error"
      [] resp.error /\ resp.status_code = 200 -> "unparseable"
      [] resp.status_code # 200 -> "http"
      [] ~resp.has_job -> "nojob"
      [] IsFinOK(resp) -> "FIN/OK"
      [] IsFin(resp) -> "FIN/other"
      [] IsAct(resp) -> "ACT"
      [] OTHER -> "other"

\* the answers at which the poll raised an exception
Raised == {"error", "unparseable"}

\* device A answers ACT, ACT, FIN/OK while device B answers FIN/OK at once
ScenarioPolls ==
    <<[host |-> "fw1", answer |-> "ACT"], [host |-> "fw2", answer |-> "FIN/OK"],
      [host |-> "fw1", answer |-> "ACT"], [host |-> "fw1", answer |-> "FIN/OK"]>>

\* the record of one job-status poll: addressed to host, with key and job id
PollHistory(host, key, id, resp) ==
    /\ lastPoll' = [host |-> host, key |-> key, jobid |-> id, answer |-> Answer(resp)]
    /\ polled' = polled \cup {host}
    /\ finOK' = IF IsFinOK(resp) THEN finOK \cup {host} ELSE finOK
    /\ finSeen' = IF IsFin(resp) THEN finSeen \cup {host} ELSE finSeen
    /\ scenario' = IF scenario >= 0 /\ scenario < Len(ScenarioPolls)
                       /\ ScenarioPolls[scenario + 1] = [host |-> host, answer |-> Answer(resp)]
                    THEN scenario + 1 ELSE -1
    /\ latePoll' = (latePoll \/ Expired(clock))
    /\ repollNoSleep' = (repollNoSleep \/ host \in unslept)

IterBegin ==
    /\ iterKeys' = DictKeys(jobid_dict)
    /\ iterPolled' = <<>>
    /\ iters' = Bump(iters)

pollHist == <<lastPoll, polled, finOK, finSeen, scenario, latePoll, repollNoSleep>>
iterHist == <<iterKeys, iterPolled, iters>>
single == <<jobid, results_commit>>

(***************************************************************************)
(* utils_pa.commit_changes                                                 *)
(***************************************************************************)
\* mutant: the job id alone as the key
UniqueKey_jobid_only(host, id) == Str(id)

\* unique_key = f"{device['host']}_{jobid}"
UniqueKey(host, id) == host \o "_" \o Str(id)

JobInfo(device, headers, id) ==
    [key |-> UniqueKey(device.host, id), device |-> device, headers |-> headers,
     host |-> device.host, jobid |-> id]

\* jobid_dict after a commit response with status 200
utils_register(d, device, headers, r) ==
    IF r.has_result THEN DictSet(d, JobInfo(device, headers, r.job)) ELSE d

utils_start_commit ==
    /\ op = "utils" /\ pc = "commit" /\ i <= N
    /\ \E r \in CommitResponses :
          /\ commitSent' = Append(commitSent, pa_credentials[i].host)
          /\ commitResp' = [commitResp EXCEPT ![i] = r]
          /\ IF r.error \/ r.status_code # 200
             THEN Done("False") /\ UNCHANGED <<i, jobid_dict>>
             ELSE /\ jobid_dict' =
                        utils_register(jobid_dict, pa_credentials[i], api_keys_list[i], r)
                  /\ i' = i + 1
                  /\ UNCHANGED <<pc, result>>
    /\ UNCHANGED <<progVars, call, syncState, ready_devices, completed_jobs, queue, clock, start_time,
                   single, pollHist, iterHist, timedOut>>
    /\ UNCHANGED unslept
    /\ UNCHANGED stepState

utils_check_jobs ==
    /\ op = "utils" /\ pc = "commit" /\ i > N
    /\ IF jobid_dict = <<>>
       THEN Done("False") /\ UNCHANGED start_time
       ELSE pc' = "loop" /\ start_time' = clock /\ UNCHANGED result
    /\ UNCHANGED <<progVars, call, syncState, i, jobid_dict, ready_devices, completed_jobs, queue, clock,
                   single, commitSent, commitResp, pollHist, iterHist, timedOut>>
    /\ UNCHANGED unslept
    /\ UNCHANGED stepState

\* while jobid_dict and (time.time() - start_time) < max_wait_time
utils_loop_condition(d, now, start) ==
    d # <<>> /\ (now - start) < utils_max_wait_time

utils_loop_head ==
    /\ op = "utils" /\ pc = "loop"
    /\ timedOut' = (jobid_dict # <<>> /\ clock - start_time >= utils_max_wait_time)
    /\ IF utils_loop_condition(jobid_dict, clock, start_time)
       THEN /\ pc' = "poll"
            /\ queue' = jobid_dict
            /\ completed_jobs' = <<>>
            /\ IterBegin
            /\ UNCHANGED result
       ELSE /\ Done(IF jobid_dict # <<>> THEN "False" ELSE "True")
            /\ UNCHANGED <<queue, completed_jobs, iterHist>>
    /\ UNCHANGED <<progVars, call, syncState, i, jobid_dict, ready_devices, clock, start_time, single,
                   commitSent, commitResp, pollHist>>
    /\ UNCHANGED unslept
    /\ UNCHANGED stepState

\* mutant: a FIN with another result than OK is only logged
utils_poll_effect_lenient(resp) ==
    IF resp.error THEN "raise"
    ELSE IF resp.status_code = 200 /\ resp.has_job
         THEN IF resp.status = "ACT" THEN "running"
              ELSE IF resp.status = "FIN" /\ resp.result = "OK" THEN "ready" ELSE "none"
         ELSE "none"

\* mutant: a running job counts as complete
utils_poll_effect_eager(resp) ==
    IF resp.error THEN "raise"
    ELSE IF resp.status_code = 200 /\ resp.has_job
         THEN IF resp.status = "ACT" THEN "ready"
              ELSE IF resp.status = "FIN"
                   THEN IF resp.result = "OK" THEN "ready" ELSE "return_false"
                   ELSE "none"
         ELSE "none"

\* what one poll answer makes the strict monitor do
utils_poll_effect(resp) ==
    IF resp.error THEN "raise"
    ELSE IF resp.status_code = 200 /\ resp.has_job
         THEN IF resp.status = "ACT" THEN "running"
              ELSE IF resp.status = "FIN"
                   THEN IF resp.result = "OK" THEN "ready" ELSE "return_false"
                   ELSE "none"
         ELSE "none"

\* mutant: the for loop is left after the first job polled
utils_for_next_blocking(q) == <<>>

\* the for loop moves on to the next item of jobid_dict
utils_for_next(q) == Tail(q)

utils_poll_job ==
    /\ op = "utils" /\ pc = "poll" /\ queue # <<>>
    /\ \E resp \in PollAnswers(Head(queue).jobid), d \in RequestTimes :
          LET job == Head(queue)
              effect == utils_poll_effect(resp)
              rest == utils_for_next(queue)
          IN  /\ PollHistory(job.host, job.headers.key, job.jobid, resp)
              /\ iterPolled' = Append(iterPolled, job.key)
              /\ clock' = Later(clock, d)
              /\ IF effect \in {"raise", "return_false"}
                 THEN Done("False") /\ UNCHANGED <<queue, ready_devices, completed_jobs>>
                 ELSE /\ queue' = rest
                      /\ pc' = IF rest = <<>> THEN "end_iter" ELSE "poll"
                      /\ UNCHANGED result
                      /\ IF effect = "ready"
                         THEN /\ ready_devices' = ready_devices \cup {job.host}
                              /\ completed_jobs' = Append(completed_jobs, job.key)
                         ELSE UNCHANGED <<ready_devices, completed_jobs>>
    /\ UNCHANGED <<progVars, call, syncState, i, jobid_dict, start_time, single, commitSent, commitResp,
                   iterKeys, iters, timedOut>>
    /\ unslept' = unslept \cup {Head(queue).host}
    /\ UNCHANGED stepState

utils_end_iteration ==
    /\ op = "utils" /\ pc = "end_iter"
    /\ jobid_dict' = DictDelAll(jobid_dict, completed_jobs)
    /\ IF jobid_dict' = <<>>
       THEN Done("True") /\ UNCHANGED clock
       ELSE pc' = "loop" /\ clock' = Later(clock, PollSleep) /\ UNCHANGED result
    /\ UNCHANGED <<progVars, call, syncState, i, ready_devices, completed_jobs, queue, start_time, single,
                   commitSent, commitResp, pollHist, iterHist, timedOut>>
    /\ unslept' = IF jobid_dict' = <<>> THEN unslept ELSE {}
    /\ UNCHANGED stepState

(***************************************************************************)
(* Step03_HAConfig.commit_changes                                          *)
(***************************************************************************)
\* jobid_dict after a commit response with status 200
Step03_register(d, device, headers, r) ==
    IF r.has_result /\ Truthy(r.job) THEN DictSet(d, JobInfo(device, headers, r.job)) ELSE d

Step03_start_commit ==
    /\ op \in Step03Ops /\ pc = "commit" /\ i <= N
    /\ \E r \in CommitResponses :
          /\ commitSent' = Append(commitSent, pa_credentials[i].host)
          /\ commitResp' = [commitResp EXCEPT ![i] = r]
          /\ jobid_dict' =
                IF ~r.error /\ r.status_code = 200
                THEN Step03_register(jobid_dict, pa_credentials[i], api_keys_list[i], r)
                ELSE jobid_dict
          /\ i' = i + 1
    /\ UNCHANGED <<progVars, call, syncState, pc, result, ready_devices, completed_jobs, queue, clock,
                   start_time, single, pollHist, iterHist, timedOut>>
    /\ UNCHANGED unslept
    /\ UNCHANGED stepState

Step03_check_jobs ==
    /\ op \in Step03Ops /\ pc = "commit" /\ i > N
    /\ IF jobid_dict = <<>>
       THEN Done("False") /\ UNCHANGED start_time
       ELSE pc' = "loop" /\ start_time' = clock /\ UNCHANGED result
    /\ UNCHANGED <<progVars, call, syncState, i, jobid_dict, ready_devices, completed_jobs, queue, clock,
                   single, commitSent, commitResp, pollHist, iterHist, timedOut>>
    /\ UNCHANGED unslept
    /\ UNCHANGED stepState

\* while jobid_dict and (time.time() - start_time) < max_wait_time
Step03_loop_condition(d, now, start) ==
    d # <<>> /\ (now - start) < Step03_max_wait_time

\* mutant: the size of an HA pair instead of the length of the input list
Step03_all_ready_pair(ready, credentials) ==
    Cardinality(ready) = 2

\* len(ready_devices) == len(pa_credentials)
Step03_all_ready(ready, credentials) ==
    Cardinality(ready) = Len(credentials)

Step03_loop_head ==
    /\ op \in Step03Ops /\ pc = "loop"
    /\ timedOut' = (jobid_dict # <<>> /\ clock - start_time >= Step03_max_wait_time)
    /\ IF Step03_loop_condition(jobid_dict, clock, start_time)
       THEN /\ pc' = "poll"
            /\ queue' = jobid_dict
            /\ completed_jobs' = <<>>
            /\ IterBegin
            /\ UNCHANGED result
       ELSE /\ Done(IF Step03_all_ready(ready_devices, pa_credentials)
                    THEN "True" ELSE "False")
            /\ UNCHANGED <<queue, completed_jobs, iterHist>>
    /\ UNCHANGED <<progVars, call, syncState, i, jobid_dict, ready_devices, clock, start_time, single,
                   commitSent, commitResp, pollHist>>
    /\ UNCHANGED unslept
    /\ UNCHANGED stepState

\* what one poll answer makes the lenient monitor do
Step03_poll_effect(resp) ==
    IF resp.error THEN "raise"
    ELSE IF resp.status_code = 200 /\ resp.has_job
         THEN IF resp.status = "ACT" THEN "running"
              ELSE IF resp.status = "FIN"
                   THEN IF resp.result = "OK" THEN "ready" ELSE "failed"
                   ELSE "none"
         ELSE "none"

Step03_poll_job ==
    /\ op \in Step03Ops /\ pc = "poll" /\ queue # <<>>
    /\ \E resp \in PollAnswers(Head(queue).jobid), d \in RequestTimes :
          LET job == Head(queue)
              effect == Step03_poll_effect(resp)
              rest == Tail(queue)
          IN  /\ PollHistory(job.host, job.headers.key, job.jobid, resp)
              /\ iterPolled' = Append(iterPolled, job.key)
              /\ clock' = Later(clock, d)
              /\ IF effect = "raise"
                 THEN Done("False") /\ UNCHANGED <<queue, ready_devices, completed_jobs>>
                 ELSE /\ queue' = rest
                      /\ pc' = IF rest = <<>> THEN "end_iter" ELSE "poll"
                      /\ UNCHANGED result
                      /\ ready_devices' = IF effect = "ready"
                                          THEN ready_devices \cup {job.host}
                                          ELSE ready_devices
                      /\ completed_jobs' = IF effect \in {"ready", "failed"}
                                           THEN Append(completed_jobs, job.key)
                                           ELSE completed_jobs
    /\ UNCHANGED <<progVars, call, syncState, i, jobid_dict, start_time, single, commitSent, commitResp,
                   iterKeys, iters, timedOut>>
    /\ unslept' = unslept \cup {Head(queue).host}
    /\ UNCHANGED stepState

Step03_end_iteration ==
    /\ op \in Step03Ops /\ pc = "end_iter"
    /\ jobid_dict' = DictDelAll(jobid_dict, completed_jobs)
    /\ IF Step03_all_ready(ready_devices, pa_credentials)
       THEN Done("True") /\ UNCHANGED clock
       ELSE /\ pc' = "loop"
            /\ clock' = IF jobid_dict' # <<>> THEN Later(clock, PollSleep) ELSE clock
            /\ UNCHANGED result
    /\ UNCHANGED <<progVars, call, syncState, i, ready_devices, completed_jobs, queue, start_time, single,
                   commitSent, commitResp, pollHist, iterHist, timedOut>>
    /\ unslept' = IF ~Step03_all_ready(ready_devices, pa_credentials) /\ jobid_dict' # <<>>
                  THEN {} ELSE unslept
    /\ UNCHANGED stepState

(***************************************************************************)
(* step_06_commit.py  Step06_CommitSync._commit_changes                    *)
(***************************************************************************)
OneDevice ==
    <<progVars, call, syncState, i, jobid_dict, ready_devices, completed_jobs, queue,
      iterKeys, iterPolled>>

\* what the commit response makes the one-device monitor of step_06_commit do
Step06_commit_effect(r) ==
    IF r.error THEN "error"
    ELSE IF r.status_code # 200 THEN "failed"
    ELSE IF ~r.has_result THEN "failed"
    ELSE IF ~Truthy(r.job) THEN "failed"
    ELSE "monitor"

Step06_start_commit ==
    /\ op \in Step06CommitOps /\ pc = "commit"
    /\ \E r \in CommitResponses :
          /\ commitSent' = Append(commitSent, pa_credentials[1].host)
          /\ commitResp' = [commitResp EXCEPT ![1] = r]
          /\ IF Step06_commit_effect(r) = "monitor"
             THEN /\ jobid' = r.job
                  /\ start_time' = clock
                  /\ pc' = "loop"
                  /\ UNCHANGED <<result, results_commit>>
             ELSE /\ Done("False")
                  /\ results_commit' = Step06_commit_effect(r)
                  /\ UNCHANGED <<jobid, start_time>>
    /\ UNCHANGED <<OneDevice, clock, pollHist, iters, timedOut>>
    /\ UNCHANGED unslept
    /\ UNCHANGED stepState

\* mutant: no deadline in the loop condition
Step06_loop_condition_unbounded(now, start) == TRUE

\* while time.time() - start_time < max_wait_time
Step06_loop_condition(now, start) ==
    now - start < Step06_max_wait_time

Step06_timeout ==
    /\ op \in Step06CommitOps /\ pc = "loop"
    /\ ~Step06_loop_condition(clock, start_time)
    /\ timedOut' = (clock - start_time >= Step06_max_wait_time)
    /\ Done("False")
    /\ results_commit' = "timeout"
    /\ UNCHANGED <<OneDevice, jobid, clock, start_time, commitSent, commitResp, pollHist,
                   iters>>
    /\ UNCHANGED unslept
    /\ UNCHANGED stepState

\* what one poll answer makes the one-device monitor of step_06_commit do
Step06_poll_effect(resp) ==
    IF resp.error THEN "error"
    ELSE IF resp.status_code # 200 THEN "sleep10"
    ELSE IF ~resp.has_job THEN "sleep10"
    ELSE IF resp.status = "ACT" THEN "sleep15"
    ELSE IF resp.status = "FIN"
         THEN IF resp.result = "OK" THEN "success" ELSE "failed"
         ELSE "sleep10"

Step06_poll ==
    /\ op \in Step06CommitOps /\ pc = "loop"
    /\ Step06_loop_condition(clock, start_time)
    /\ timedOut' = (clock - start_time >= Step06_max_wait_time)
    /\ \E resp \in PollAnswers(jobid), d \in RequestTimes :
          LET effect == Step06_poll_effect(resp)
          IN  /\ PollHistory(pa_credentials[1].host, api_keys_list[1].key, jobid, resp)
              /\ iters' = Bump(iters)
              /\ unslept' = IF effect \in {"sleep10", "sleep15"}
                            THEN {} ELSE unslept \cup {pa_credentials[1].host}
              /\ CASE effect = "sleep10" ->
                        /\ clock' = Later(Later(clock, d), MissSleep)
                        /\ UNCHANGED <<pc, result, results_commit>>
                   [] effect = "sleep15" ->
                        /\ clock' = Later(Later(clock, d), PollSleep)
                        /\ UNCHANGED <<pc, result, results_commit>>
                   [] effect = "success" ->
                        /\ clock' = Later(clock, d)
                        /\ Done("True")
                        /\ results_commit' = "success"
                   [] OTHER ->
                        /\ clock' = Later(clock, d)
                        /\ Done("False")
                        /\ results_commit' = effect
    /\ UNCHANGED <<OneDevice, jobid, start_time, commitSent, commitResp>>
    /\ UNCHANGED stepState

(***************************************************************************)
(* step_10_commit.py  Step06_CommitSync._commit_changes                    *)
(***************************************************************************)
\* what the commit response makes the one-device monitor of step_10_commit do
Step10_commit_effect(r) ==
    IF r.error THEN "error"
    ELSE IF r.status_code = 200
         THEN IF r.has_result
              THEN IF Truthy(r.job) THEN "monitor" ELSE "failed"
              ELSE "failed"
         ELSE "failed"

Step10_start_commit ==
    /\ op \in Step10CommitOps /\ pc = "commit"
    /\ \E r \in CommitResponses :
          /\ commitSent' = Append(commitSent, pa_credentials[1].host)
          /\ commitResp' = [commitResp EXCEPT ![1] = r]
          /\ IF Step10_commit_effect(r) = "monitor"
             THEN /\ jobid' = r.job
                  /\ pc' = "loop"
                  /\ UNCHANGED <<result, results_commit>>
             ELSE /\ Done("False")
                  /\ results_commit' = Step10_commit_effect(r)
                  /\ UNCHANGED jobid
    /\ UNCHANGED <<OneDevice, clock, start_time, pollHist, iters, timedOut>>
    /\ UNCHANGED unslept
    /\ UNCHANGED stepState

\* while jobid
Step10_loop_condition(id) == Truthy(id)

\* what one poll answer makes the one-device monitor of step_10_commit do
Step10_poll_effect(resp) ==
    IF resp.error THEN "error"
    ELSE IF resp.status_code = 200 /\ resp.has_job
         THEN IF resp.status = "ACT" THEN "sleep15"
              ELSE IF resp.status = "FIN"
                   THEN IF resp.result = "OK" THEN "success" ELSE "failed"
                   ELSE "again"
         ELSE "again"

Step10_poll ==
    /\ op \in Step10CommitOps /\ pc = "loop"
    /\ Step10_loop_condition(jobid)
    /\ \E resp \in PollAnswers(jobid), d \in RequestTimes :
          LET effect == Step10_poll_effect(resp)
          IN  /\ PollHistory(pa_credentials[1].host, api_keys_list[1].key, jobid, resp)
              /\ iters' = Bump(iters)
              /\ unslept' = IF effect = "sleep15"
                            THEN {} ELSE unslept \cup {pa_credentials[1].host}
              /\ CASE effect = "again" ->
                        /\ clock' = Later(clock, d)
                        /\ UNCHANGED <<pc, result, results_commit>>
                   [] effect = "sleep15" ->
                        /\ clock' = Later(Later(clock, d), PollSleep)
                        /\ UNCHANGED <<pc, result, results_commit>>
                   [] effect = "success" ->
                        /\ clock' = Later(clock, d)
                        /\ Done("True")
                        /\ results_commit' = "success"
                   [] OTHER ->
                        /\ clock' = Later(clock, d)
                        /\ Done("False")
                        /\ results_commit' = effect
    /\ UNCHANGED <<OneDevice, jobid, start_time, commitSent, commitResp, timedOut>>
    /\ UNCHANGED stepState

(***************************************************************************)
(* Step03_HAConfig.execute, from its commit on                             *)
(***************************************************************************)
\* what the commit monitors own, but for pc, result and the history of the requests
\* of the step
monitorState ==
    <<i, jobid_dict, ready_devices, completed_jobs, queue, jobid, start_time,
      results_commit, commitResp, lastPoll, polled, iters, finOK, finSeen, scenario,
      iterKeys, iterPolled, timedOut, latePoll, unslept, repollNoSleep>>

\* if not success: force_enable_ha sends one enable request to every device, whose
\* answer is only logged, and calls commit_changes again; the call begins with empty
\* jobid_dict and ready_devices, and the history of the call begins anew
Step03_execute_force_enable_ha ==
    /\ op = "step03_execute" /\ pc = "done" /\ result = "False" /\ call = 1
    /\ call' = 2
    /\ pc' = "commit"
    /\ result' = "running"
    /\ i' = 1
    /\ jobid_dict' = <<>>
    /\ ready_devices' = {}
    /\ completed_jobs' = <<>>
    /\ queue' = <<>>
    /\ clock' = 0
    /\ start_time' = 0
    /\ commitResp' = [k \in 1..N |-> NoCommitResp]
    /\ lastPoll' = NoPoll
    /\ polled' = {}
    /\ finOK' = {}
    /\ finSeen' = {}
    /\ iters' = 0
    /\ scenario' = 0
    /\ iterKeys' = <<>>
    /\ iterPolled' = <<>>
    /\ timedOut' = FALSE
    /\ latePoll' = FALSE
    /\ unslept' = {}
    /\ repollNoSleep' = FALSE
    /\ UNCHANGED <<progVars, syncState, jobid, results_commit, commitSent>>
    /\ UNCHANGED stepState

\* verify_ha_status, the save of ha_config_data.pkl and return True: after a
\* successful commit, or after force_enable_ha whatever its commit returned
Step03_execute_return ==
    /\ op = "step03_execute" /\ pc = "done"
    /\ result = "True" \/ call = 2
    /\ pc' = "exec_done"
    /\ result' = "True"
    /\ UNCHANGED <<progVars, syncState, monitorState, clock, commitSent, call>>
    /\ UNCHANGED stepState

(***************************************************************************)
(* HA synchronisation: _force_sync_config and _wait_for_sync_completion    *)
(***************************************************************************)
Step06_max_checks == 12
Step10_max_checks == 8

\* values of the running-sync field; None when the field is missing
SyncStates ==
    {"synchronized", "synchronization in progress", "not synchronized",
     "sync in progress", "suspended", None}

\* what the device may answer to an HA state query (error with status_code 0: the
\* request raised; error with status_code 200: the body is not XML)
StateResponses ==
    {[error |-> TRUE, status_code |-> 0, state |-> None],
     [error |-> TRUE, status_code |-> 200, state |-> None],
     [error |-> FALSE, status_code |-> 500, state |-> None]}
    \cup {[error |-> FALSE, status_code |-> 200, state |-> st] : st \in SyncStates}

\* what the device may answer to the sync-to-remote request
TriggerResponses ==
    {[error |-> TRUE, status_code |-> 0],
     [error |-> FALSE, status_code |-> 500],
     [error |-> FALSE, status_code |-> 200]}

\* the device reports not synchronized, then in progress three times, then
\* synchronized
SyncScenario ==
    <<"not synchronized", "synchronization in progress", "synchronization in progress",
      "synchronization in progress", "synchronized">>

\* the state an answer reports, NoState when it reports none
Reported(r) == IF ~r.error /\ r.status_code = 200 THEN r.state ELSE NoState

\* how an HA state query was answered
QueryAnswer(r) ==
    CASE r.error /\ r.status_code # 200 -> "error"
      [] r.error /\ r.status_code = 200 -> "unparseable"
      [] r.status_code # 200 -> "http"
      [] OTHER -> "state"

\* the record of one HA state query
StateQueryHistory(r) ==
    /\ statePolls' = statePolls + 1
    /\ lastState' = Reported(r)
    /\ sawSync' = (sawSync \/ Reported(r) = "synchronized")
    /\ lastQuery' = QueryAnswer(r)
    /\ syncScenario' = IF syncScenario >= 0 /\ syncScenario < Len(SyncScenario)
                          /\ SyncScenario[syncScenario + 1] = Reported(r)
                       THEN syncScenario + 1 ELSE -1

\* how the sync-to-remote request was answered
TriggerAnswer(t) ==
    IF t.error THEN "error" ELSE IF t.status_code # 200 THEN "http" ELSE "ok"

\* the return of _force_sync_config with this outcome in results['ha_sync']
SyncReturn(value, outcome) == Done(value) /\ results_ha_sync' = outcome

\* mutant: a synchronized first state is waited on all the same
Step06_first_state_effect_recheck(r) ==
    IF r.error THEN "error"
    ELSE IF r.status_code # 200 THEN "failed"
    ELSE IF r.state \in {"synchronized", "synchronization in progress"} THEN "wait"
    ELSE IF r.state = "not synchronized" THEN "trigger"
    ELSE "unknown"

\* mutant: a synchronisation in progress is triggered again
Step06_first_state_effect_retrigger(r) ==
    IF r.error THEN "error"
    ELSE IF r.status_code # 200 THEN "failed"
    ELSE IF r.state = "synchronized" THEN "success"
    ELSE IF r.state \in {"synchronization in progress", "not synchronized"} THEN "trigger"
    ELSE "unknown"

\* what the first state query makes _force_sync_config of step_06_commit do
Step06_first_state_effect(r) ==
    IF r.error THEN "error"
    ELSE IF r.status_code # 200 THEN "failed"
    ELSE IF r.state = "synchronized" THEN "success"
    ELSE IF r.state = "synchronization in progress" THEN "wait"
    ELSE IF r.state = "not synchronized" THEN "trigger"
    ELSE "unknown"

Step06_force_sync_config_query ==
    /\ op \in Step06SyncOps /\ pc = "sync_query"
    /\ \E r \in StateResponses :
          LET effect == Step06_first_state_effect(r)
          IN  /\ StateQueryHistory(r)
              /\ firstState' = Reported(r)
              /\ CASE effect = "wait" ->
                        pc' = "sync_wait" /\ UNCHANGED <<result, results_ha_sync>>
                   [] effect = "trigger" ->
                        pc' = "sync_trigger" /\ UNCHANGED <<result, results_ha_sync>>
                   [] OTHER ->
                        SyncReturn(IF effect = "success" THEN "True" ELSE "False", effect)
    /\ UNCHANGED <<progVars, monitorState, clock, commitSent, call, check, wait_result,
                   triggers, triggerAnswer>>
    /\ UNCHANGED stepState

\* what the answer to the sync-to-remote request makes _force_sync_config do
Step06_trigger_effect(t) ==
    IF t.error THEN "error"
    ELSE IF t.status_code # 200 THEN "failed"
    ELSE "wait"

Step06_force_sync_config_trigger ==
    /\ op \in Step06SyncOps /\ pc = "sync_trigger"
    /\ \E t \in TriggerResponses :
          LET effect == Step06_trigger_effect(t)
          IN  /\ triggers' = triggers + 1
              /\ triggerAnswer' = TriggerAnswer(t)
              /\ IF effect = "wait"
                 THEN pc' = "sync_wait" /\ UNCHANGED <<result, results_ha_sync>>
                 ELSE SyncReturn("False", effect)
    /\ UNCHANGED <<progVars, monitorState, clock, commitSent, call, check, wait_result,
                   firstState, statePolls, syncScenario, lastState,
                   sawSync, lastQuery>>
    /\ UNCHANGED stepState

\* mutant: a check that reports synchronized does not end the wait
Step06_wait_effect_never(r) ==
    IF r.error THEN "error" ELSE "continue"

\* what one check makes _wait_for_sync_completion of step_06_commit do
Step06_wait_effect(r) ==
    IF r.error THEN "error"
    ELSE IF r.status_code # 200 THEN "continue"
    ELSE IF r.state = "synchronized" THEN "success"
    ELSE "continue"

\* for check in range(max_checks)
Step06_wait_loop_condition(c) == c < Step06_max_checks

Step06_wait_for_sync_completion_poll ==
    /\ op \in Step06SyncOps /\ pc = "sync_wait"
    /\ Step06_wait_loop_condition(check)
    /\ check' = check + 1
    /\ clock' = Later(clock, PollSleep)
    /\ \E r \in StateResponses :
          LET effect == Step06_wait_effect(r)
          IN  /\ StateQueryHistory(r)
              /\ CASE effect = "continue" ->
                        UNCHANGED <<pc, result, results_ha_sync, wait_result>>
                   [] effect = "success" ->
                        wait_result' = "True" /\ SyncReturn("True", "success")
                   [] OTHER ->
                        wait_result' = "False" /\ SyncReturn("False", "error")
    /\ UNCHANGED <<progVars, monitorState, commitSent, call, firstState, triggers,
                   triggerAnswer>>
    /\ UNCHANGED stepState

Step06_wait_for_sync_completion_timeout ==
    /\ op \in Step06SyncOps /\ pc = "sync_wait"
    /\ ~Step06_wait_loop_condition(check)
    /\ wait_result' = "False"
    /\ SyncReturn("False", "timeout")
    /\ UNCHANGED <<progVars, monitorState, clock, commitSent, call, check, firstState,
                   triggers, statePolls, syncScenario, lastState,
                   triggerAnswer, sawSync, lastQuery>>
    /\ UNCHANGED stepState

\* mutant: a state not synchronized is waited on without a sync-to-remote request
Step10_first_state_effect_no_trigger(r) ==
    IF r.error THEN "error"
    ELSE IF r.status_code = 200
         THEN IF r.state = "synchronized" THEN "success"
              ELSE IF r.state \in {"synchronization in progress", "not synchronized"}
                   THEN "wait"
              ELSE "fall_through"
         ELSE "failed"

\* what the first state query makes _force_sync_config of step_10_commit do; with a
\* state that is none of the three the function falls off its end and returns None
Step10_first_state_effect(r) ==
    IF r.error THEN "error"
    ELSE IF r.status_code = 200
         THEN IF r.state = "synchronized" THEN "success"
              ELSE IF r.state = "synchronization in progress" THEN "wait"
              ELSE IF r.state = "not synchronized" THEN "trigger"
              ELSE "fall_through"
         ELSE "failed"

Step10_force_sync_config_query ==
    /\ op \in Step10SyncOps /\ pc = "sync_query"
    /\ \E r \in StateResponses :
          LET effect == Step10_first_state_effect(r)
          IN  /\ StateQueryHistory(r)
              /\ firstState' = Reported(r)
              /\ CASE effect = "wait" ->
                        pc' = "sync_wait" /\ UNCHANGED <<result, results_ha_sync>>
                   [] effect = "trigger" ->
                        pc' = "sync_trigger" /\ UNCHANGED <<result, results_ha_sync>>
                   [] effect = "fall_through" ->
                        Done("None") /\ UNCHANGED results_ha_sync
                   [] OTHER ->
                        SyncReturn(IF effect = "success" THEN "True" ELSE "False", effect)
    /\ UNCHANGED <<progVars, monitorState, clock, commitSent, call, check, wait_result,
                   triggers, triggerAnswer>>
    /\ UNCHANGED stepState

\* mutant: the wait is entered whatever the status of the answer
Step10_trigger_effect_tolerant(t) ==
    IF t.error THEN "error" ELSE "wait"

\* what the answer to the sync-to-remote request makes _force_sync_config do
Step10_trigger_effect(t) ==
    IF t.error THEN "error"
    ELSE IF t.status_code = 200 THEN "wait"
    ELSE "failed"

Step10_force_sync_config_trigger ==
    /\ op \in Step10SyncOps /\ pc = "sync_trigger"
    /\ \E t \in TriggerResponses :
          LET effect == Step10_trigger_effect(t)
          IN  /\ triggers' = triggers + 1
              /\ triggerAnswer' = TriggerAnswer(t)
              /\ IF effect = "wait"
                 THEN pc' = "sync_wait" /\ UNCHANGED <<result, results_ha_sync>>
                 ELSE SyncReturn("False", effect)
    /\ UNCHANGED <<progVars, monitorState, clock, commitSent, call, check, wait_result,
                   firstState, statePolls, syncScenario, lastState,
                   sawSync, lastQuery>>
    /\ UNCHANGED stepState

\* mutant: a check answered with another status than 200 ends the wait
Step10_wait_effect_strict(r) ==
    IF r.error \/ r.status_code # 200 THEN "error"
    ELSE IF r.state = "synchronized" THEN "success"
    ELSE "continue"

\* what one check makes _wait_for_sync_completion of step_10_commit do
Step10_wait_effect(r) ==
    IF r.error THEN "error"
    ELSE IF r.status_code = 200 /\ r.state = "synchronized" THEN "success"
    ELSE "continue"

\* mutant: one check more than max_checks
Step10_wait_loop_condition_extra(c) == c <= Step10_max_checks

\* for check in range(max_checks)
Step10_wait_loop_condition(c) == c < Step10_max_checks

\* _force_sync_config of step_10_commit records 'success' when the wait returned
\* True and 'failed' when it returned False
Step10_wait_for_sync_completion_poll ==
    /\ op \in Step10SyncOps /\ pc = "sync_wait"
    /\ Step10_wait_loop_condition(check)
    /\ check' = check + 1
    /\ clock' = Later(clock, PollSleep)
    /\ \E r \in StateResponses :
          LET effect == Step10_wait_effect(r)
          IN  /\ StateQueryHistory(r)
              /\ CASE effect = "continue" ->
                        UNCHANGED <<pc, result, results_ha_sync, wait_result>>
                   [] effect = "success" ->
                        wait_result' = "True" /\ SyncReturn("True", "success")
                   [] OTHER ->
                        wait_result' = "False" /\ SyncReturn("False", "failed")
    /\ UNCHANGED <<progVars, monitorState, commitSent, call, firstState, triggers,
                   triggerAnswer>>
    /\ UNCHANGED stepState

Step10_wait_for_sync_completion_timeout ==
    /\ op \in Step10SyncOps /\ pc = "sync_wait"
    /\ ~Step10_wait_loop_condition(check)
    /\ wait_result' = "False"
    /\ SyncReturn("False", "failed")
    /\ UNCHANGED <<progVars, monitorState, clock, commitSent, call, check, firstState,
                   triggers, statePolls, syncScenario, lastState,
                   triggerAnswer, sawSync, lastQuery>>
    /\ UNCHANGED stepState

(***************************************************************************)
(* Step04_IdentifyActive.execute: the active-node resolver                 *)
(***************************************************************************)
\* the text a device may put in the state element of its HA state answer;
\* None is an element without text
HaStateTexts == {"active", "Active", " ACTIVE ", "passive", "Standby", "initial", None}

\* what a device may answer to the HA state query: no answer, a body that is
\* not XML, another status than 200, a body without state element, a state
HaStateResponses ==
    {[error |-> TRUE, status_code |-> 0, has_state |-> FALSE, text |-> None],
     [error |-> TRUE, status_code |-> 200, has_state |-> FALSE, text |-> None],
     [error |-> FALSE, status_code |-> 500, has_state |-> FALSE, text |-> None],
     [error |-> FALSE, status_code |-> 200, has_state |-> FALSE, text |-> None]}
    \cup {[error |-> FALSE, status_code |-> 200, has_state |-> TRUE, text |-> t] :
             t \in HaStateTexts}

\* ha_state_element.text.strip() followed by .lower()
strip_lower(text) ==
    CASE text \in {"active", "Active", " ACTIVE "} -> "active"
      [] text = "passive" -> "passive"
      [] text = "Standby" -> "standby"
      [] OTHER -> text

\* what one answer does to the device loop of an attempt
Step04_state_effect(r) ==
    IF r.error THEN "exception"
    ELSE IF r.status_code = 200
         THEN IF r.has_state
              THEN IF r.text = None THEN "exception"
                   ELSE IF strip_lower(r.text) = "active" THEN "active"
                   ELSE IF strip_lower(r.text) \in {"passive", "standby"}
                        THEN "passive"
                        ELSE "unexpected"
              ELSE "no_state"
         ELSE "http"

\* a device loop that goes on after a device reported active
Step04_after_query_no_break(effect, d, n) ==
    IF d >= n THEN "attempt_end" ELSE "query"

\* a device loop that an exception ends
Step04_after_query_abort(effect, d, n) ==
    IF effect \in {"active", "exception"} \/ d >= n THEN "attempt_end" ELSE "query"

\* where the device loop goes after the device at position d: break on active,
\* the next device otherwise (continue after an exception), the end of the loop
\* after the last device
Step04_after_query(effect, d, n) ==
    IF effect = "active" \/ d >= n THEN "attempt_end" ELSE "query"

\* for attempt in range(max_attempts)
Step04_for_attempt(a) == a + 1 < Step04_max_attempts

\* a retry sleep after the last attempt as well
Step04_retry_sleeps_always(a) == TRUE

\* if attempt < max_attempts - 1: time.sleep(wait_time)
Step04_retry_sleeps(a) == a < Step04_max_attempts - 1

\* a fallback to the last input device
Step04_fallback_last(found, inputs) ==
    IF found = <<>> THEN <<inputs[Len(inputs)]>> ELSE found

\* if not active_fw_list: append the first input device
Step04_fallback(found, inputs) == IF found = <<>> THEN <<inputs[1]>> ELSE found

\* the device reports state active
ReportsActive(r) ==
    /\ ~r.error /\ r.status_code = 200 /\ r.has_state
    /\ r.text \in {"active", "Active", " ACTIVE "}

\* load ha_config_data.pkl and wait for HA to establish; a missing file ends
\* the step in the outer except
Step04_load ==
    /\ op = "step04" /\ pc = "load"
    /\ IF blob = "ha_config_data"
       THEN /\ clock' = Later(clock, Step04_ha_wait)
            /\ pc' = "attempt"
            /\ UNCHANGED result
       ELSE /\ Done("False")
            /\ UNCHANGED clock
    /\ UNCHANGED <<progVars, monitorState, syncState, commitSent, call, stepState>>

\* the head of the attempt loop: the next attempt, or the end of the loop
Step04_attempt ==
    /\ op = "step04" /\ pc = "attempt"
    /\ IF Step04_for_attempt(attempt)
       THEN /\ attempt' = attempt + 1
            /\ active_fw_list' = <<>>
            /\ active_fw_headers' = <<>>
            /\ attemptAnswers' = <<>>
            /\ dev' = 1
            /\ pc' = IF N >= 1 THEN "query" ELSE "attempt_end"
       ELSE /\ pc' = "finish"
            /\ UNCHANGED <<attempt, active_fw_list, active_fw_headers, attemptAnswers, dev>>
    /\ UNCHANGED <<progVars, monitorState, syncState, clock, result, commitSent, call,
                   blob, activeAt, fallback_warning, active_fw_data, commit_sync_data,
                   files, stage, key_error, configState>>

\* one pass of the device loop: the HA state query to the device at dev; the
\* time the request itself takes is not counted, no deadline depends on it
Step04_query ==
    /\ op = "step04" /\ pc = "query"
    /\ \E r \in HaStateResponses :
          LET effect == Step04_state_effect(r)
          IN  /\ attemptAnswers' = Append(attemptAnswers, effect)
              /\ activeAt' = IF ReportsActive(r) /\ activeAt = <<-1, 0>>
                             THEN <<attempt, dev>> ELSE activeAt
              /\ IF effect = "active"
                 THEN /\ active_fw_list' = Append(active_fw_list, pa_credentials[dev])
                      /\ active_fw_headers' = Append(active_fw_headers, api_keys_list[dev])
                 ELSE UNCHANGED <<active_fw_list, active_fw_headers>>
              /\ pc' = Step04_after_query(effect, dev, N)
              /\ dev' = IF effect = "active" THEN dev ELSE dev + 1
    /\ UNCHANGED <<progVars, monitorState, syncState, clock, result, commitSent, call,
                   blob, attempt, fallback_warning, active_fw_data, commit_sync_data,
                   files, stage, key_error, configState>>

\* after the device loop: break when a device was found, sleep before a retry
Step04_attempt_end ==
    /\ op = "step04" /\ pc = "attempt_end"
    /\ IF active_fw_list # <<>>
       THEN /\ pc' = "finish"
            /\ UNCHANGED clock
       ELSE /\ pc' = "attempt"
            /\ clock' = IF Step04_retry_sleeps(attempt)
                        THEN Later(clock, Step04_wait_time) ELSE clock
    /\ UNCHANGED <<progVars, monitorState, syncState, result, commitSent, call, stepState>>

\* the fallback, the write of active_fw_data.pkl and the return
Step04_finish ==
    /\ op = "step04" /\ pc = "finish"
    /\ fallback_warning' = (active_fw_list = <<>>)
    /\ active_fw_list' = Step04_fallback(active_fw_list, pa_credentials)
    /\ active_fw_headers' = Step04_fallback(active_fw_headers, api_keys_list)
    /\ active_fw_data' = [active_fw_list |-> active_fw_list',
                          active_fw_headers |-> active_fw_headers',
                          active_fw_device |-> active_fw_list'[1],
                          active_fw_key |-> active_fw_headers'[1].key,
                          identification_completed |-> TRUE]
    /\ Done("True")
    /\ UNCHANGED <<progVars, monitorState, syncState, clock, commitSent, call, blob,
                   attempt, dev, attemptAnswers, activeAt, commit_sync_data,
                   files, stage, key_error, configState>>

(***************************************************************************)
(* Step06_CommitSync.execute of step_06_commit and of step_10_commit       *)
(***************************************************************************)
\* a step that goes on to commit whatever it finds on disk
Step06_load_effect_any(b) == "commit"

\* what the state on disk makes execute of step_06_commit do: a missing file
\* and a missing key both end in the outer except
Step06_load_effect(b) ==
    IF b \in {"config_results_success", "config_results_unchanged"}
    THEN "commit" ELSE "error"

\* what the state on disk makes execute of step_10_commit do: without
\* firewall_config_data.pkl it reads active_fw_data.pkl and takes config_results
\* to be empty; without a 'success' among the results it skips commit and sync
Step10_load_effect(b) ==
    CASE b = "config_results_success" -> "commit"
      [] b \in {"config_results_unchanged", "active_fw_data"} -> "skip"
      [] OTHER -> "error"

\* the state step_10_commit saves when it skips commit and sync
Step10_skip_data ==
    [commit_completed |-> TRUE, sync_completed |-> TRUE, commit_skipped |-> TRUE,
     sync_skipped |-> TRUE]

\* if not self._commit_changes(...), in step_06_commit
Step06_commit_succeeded(r) == r = "True"

\* a sync that is started whatever the commit returned
Step10_commit_succeeded_always(r) == TRUE

\* if not self._commit_changes(...), in step_10_commit
Step10_commit_succeeded(r) == r = "True"

\* execute returns: the step is over
ExecuteReturn(value) == pc' = "exec_done" /\ result' = value

\* _commit_changes has returned True: its locals are gone, and the clock
\* restarts for the sync
SyncBegins ==
    /\ pc' = "sync_query"
    /\ call' = 2
    /\ result' = "running"
    /\ jobid' = None
    /\ clock' = 0
    /\ start_time' = 0
    /\ lastPoll' = NoPoll
    /\ polled' = {}
    /\ iters' = 0
    /\ scenario' = 0
    /\ timedOut' = FALSE
    /\ latePoll' = FALSE
    /\ unslept' = {}

Step06_execute_load ==
    /\ op = "step06_execute" /\ pc = "load"
    /\ IF Step06_load_effect(blob) = "commit"
       THEN pc' = "commit" /\ UNCHANGED result
       ELSE ExecuteReturn("False")
    /\ UNCHANGED <<progVars, monitorState, syncState, clock, commitSent, call, stepState>>

\* if not self._commit_changes(...): return False
Step06_execute_commit_returned ==
    /\ op = "step06_execute" /\ pc = "done" /\ call = 1
    /\ IF Step06_commit_succeeded(result)
       THEN SyncBegins
       ELSE /\ ExecuteReturn("False")
            /\ UNCHANGED <<call, jobid, clock, start_time, lastPoll, polled, iters,
                           scenario, timedOut, latePoll, unslept>>
    /\ UNCHANGED <<progVars, syncState, commitSent, i, jobid_dict, ready_devices,
                   completed_jobs, queue, results_commit, commitResp, finOK, finSeen,
                   iterKeys, iterPolled, repollNoSleep, stepState>>

\* a saved state that records every sync as completed
Step06_sync_completed_always(outcome) == TRUE

\* 'sync_completed': commit_results.get('ha_sync') == 'success'
Step06_sync_completed(outcome) == outcome = "success"

\* a failed sync is only logged; the step saves commit_sync_data.pkl and
\* returns True
Step06_execute_save ==
    /\ op = "step06_execute" /\ pc = "done" /\ call = 2
    /\ commit_sync_data' = [commit_completed |-> TRUE,
                            sync_completed |-> Step06_sync_completed(results_ha_sync)]
    /\ ExecuteReturn("True")
    /\ UNCHANGED <<progVars, monitorState, syncState, clock, commitSent, call, blob,
                   attempt, dev, active_fw_list, active_fw_headers, attemptAnswers,
                   activeAt, fallback_warning, active_fw_data, files, stage, key_error,
                   configState>>

Step10_execute_load ==
    /\ op = "step10_execute" /\ pc = "load"
    /\ LET effect == Step10_load_effect(blob)
       IN  CASE effect = "commit" ->
                  pc' = "commit" /\ UNCHANGED <<result, commit_sync_data>>
             [] effect = "skip" ->
                  commit_sync_data' = Step10_skip_data /\ ExecuteReturn("True")
             [] OTHER ->
                  ExecuteReturn("False") /\ UNCHANGED commit_sync_data
    /\ UNCHANGED <<progVars, monitorState, syncState, clock, commitSent, call, blob,
                   attempt, dev, active_fw_list, active_fw_headers, attemptAnswers,
                   activeAt, fallback_warning, active_fw_data, files, stage, key_error,
                   configState>>

\* if not self._commit_changes(...): return False
Step10_execute_commit_returned ==
    /\ op = "step10_execute" /\ pc = "done" /\ call = 1
    /\ IF Step10_commit_succeeded(result)
       THEN SyncBegins
       ELSE /\ ExecuteReturn("False")
            /\ UNCHANGED <<call, jobid, clock, start_time, lastPoll, polled, iters,
                           scenario, timedOut, latePoll, unslept>>
    /\ UNCHANGED <<progVars, syncState, commitSent, i, jobid_dict, ready_devices,
                   completed_jobs, queue, results_commit, commitResp, finOK, finSeen,
                   iterKeys, iterPolled, repollNoSleep, stepState>>

\* if not self._force_sync_config(...): return False; else the step saves
\* commit_sync_data.pkl and returns True
Step10_execute_save ==
    /\ op = "step10_execute" /\ pc = "done" /\ call = 2
    /\ IF result = "True"
       THEN /\ commit_sync_data' = [commit_completed |-> TRUE, sync_completed |-> TRUE,
                                    commit_skipped |-> FALSE, sync_skipped |-> FALSE]
            /\ ExecuteReturn("True")
       ELSE /\ ExecuteReturn("False")
            /\ UNCHANGED commit_sync_data
    /\ UNCHANGED <<progVars, monitorState, syncState, clock, commitSent, call, blob,
                   attempt, dev, active_fw_list, active_fw_headers, attemptAnswers,
                   activeAt, fallback_warning, active_fw_data, files, stage, key_error,
                   configState>>

(***************************************************************************)
(* The steps of the pipeline and the state files between them              *)
(***************************************************************************)
PipelineSteps ==
    <<"api_keys", "discovery", "ha_interfaces", "ha_config", "identify_active",
      "firewall_config", "commit_and_sync">>

\* the state file each step loads and the keys it subscripts; api_keys reads
\* no state file
Reads ==
    [api_keys |-> [file |-> "none", keys |-> {}],
     discovery |-> [file |-> "api_keys_data",
                    keys |-> {"pa_credentials", "api_keys_list"}],
     ha_interfaces |-> [file |-> "discovery_data",
                        keys |-> {"device_status", "pa_credentials", "api_keys_list"}],
     ha_config |-> [file |-> "ha_interfaces_data",
                    keys |-> {"pa_credentials", "api_keys_list"}],
     identify_active |-> [file |-> "ha_config_data",
                          keys |-> {"pa_credentials", "api_keys_list"}],
     firewall_config |-> [file |-> "active_fw_data",
                          keys |-> {"active_fw_list", "active_fw_headers"}],
     commit_and_sync |-> [file |-> "firewall_config_data",
                          keys |-> {"active_fw_list", "active_fw_headers",
                                    "config_results"}]]

\* the state file each step writes when it succeeds, and its keys
Writes ==
    [api_keys |-> [file |-> "api_keys_data",
                   keys |-> {"rest_api_keys_list", "api_keys_list", "pa_credentials"}],
     discovery |-> [file |-> "discovery_data",
                    keys |-> {"device_status", "pa_credentials", "api_keys_list",
                              "discovery_completed"}],
     ha_interfaces |-> [file |-> "ha_interfaces_data",
                        keys |-> {"ha_interfaces_enabled", "ha_interfaces_used",
                                  "changes_made", "pa_credentials", "api_keys_list"}],
     ha_config |-> [file |-> "ha_config_data",
                    keys |-> {"ha_config_applied", "configured_devices",
                              "pa_credentials", "api_keys_list",
                              "ha_interface_configs", "ha_group_configs"}],
     identify_active |-> [file |-> "active_fw_data",
                          keys |-> {"active_fw_list", "active_fw_headers",
                                    "active_fw_device", "active_fw_key",
                                    "pa_credentials", "api_keys_list",
                                    "identification_completed", "is_fresh_deployment"}],
     firewall_config |-> [file |-> "firewall_config_data",
                          keys |-> {"firewall_config_applied", "active_fw_list",
                                    "active_fw_headers", "config_summary"}],
     commit_and_sync |-> [file |-> "commit_sync_data",
                          keys |-> {"commit_completed", "sync_completed",
                                    "commit_results", "config_results",
                                    "deployment_completed"}]]

\* config_data['key'] raises KeyError for a key the loaded file does not have
MissingKeys(step) ==
    IF Reads[step].file = "none" THEN {} ELSE Reads[step].keys \ files[Reads[step].file]

\* one step of the pipeline: it loads its input, fails in its outer except
\* when a key is missing, and otherwise does its work on the devices, which
\* may fail too; a step that succeeds writes its state file, and the pipeline
\* goes on to the next step only then
Pipeline_step ==
    /\ op = "pipeline" /\ pc = "step"
    /\ LET step == PipelineSteps[stage]
       IN  IF MissingKeys(step) # {}
           THEN /\ key_error' = step
                /\ ExecuteReturn("False")
                /\ UNCHANGED <<files, stage>>
           ELSE \E ok \in BOOLEAN :
                   IF ok
                   THEN /\ files' = [files EXCEPT ![Writes[step].file] = Writes[step].keys]
                        /\ stage' = stage + 1
                        /\ IF stage = Len(PipelineSteps)
                           THEN ExecuteReturn("True")
                           ELSE UNCHANGED <<pc, result>>
                        /\ UNCHANGED key_error
                   ELSE /\ ExecuteReturn("False")
                        /\ UNCHANGED <<files, stage, key_error>>
    /\ UNCHANGED <<progVars, monitorState, syncState, clock, commitSent, call, blob,
                   attempt, dev, active_fw_list, active_fw_headers, attemptAnswers,
                   activeAt, fallback_warning, active_fw_data, commit_sync_data,
                   configState>>

(***************************************************************************)
(* Step01_APIKeys.execute                                                  *)
(***************************************************************************)
\* what a device may answer to the keygen request: no answer, another status
\* than 200, a body without key element, a key
KeygenResponses ==
    {[error |-> TRUE, status_code |-> 0, has_key |-> FALSE, key |-> None],
     [error |-> FALSE, status_code |-> 403, has_key |-> FALSE, key |-> None],
     [error |-> FALSE, status_code |-> 200, has_key |-> FALSE, key |-> None]}
    \cup {[error |-> FALSE, status_code |-> 200, has_key |-> TRUE, key |-> k] :
             k \in {"k1", "k2"}}

\* the key of the answer, or why it gave none
Step01_keygen_effect(r) ==
    IF r.error THEN "error"
    ELSE IF r.status_code # 200 THEN "http"
    ELSE IF r.has_key THEN r.key
    ELSE "no_key"

KeygenFailures == {"error", "http", "no_key"}

\* a list that grows at its head
Step01_append_first(keys, key) == <<[key |-> key]>> \o keys

\* api_keys_list.append(xml_headers)
Step01_append(keys, key) == Append(keys, [key |-> key])

\* one request or call of a step, and how it was answered
Request(kind, host, answer) == [kind |-> kind, host |-> host, answer |-> answer]

\* _get_credentials_from_jenkins raises when a form parameter is missing
Step01_load ==
    /\ op = "step01" /\ pc = "load"
    /\ IF blob = "jenkins_parameters"
       THEN pc' = "keygen" /\ dev' = 1 /\ UNCHANGED result
       ELSE ExecuteReturn("False") /\ UNCHANGED dev
    /\ UNCHANGED <<progVars, monitorState, syncState, clock, commitSent, call, blob,
                   otherState, configState>>

\* one pass of the device loop: the keygen request; any failure ends the step
Step01_keygen ==
    /\ op = "step01" /\ pc = "keygen" /\ dev <= N
    /\ \E r \in KeygenResponses :
          LET effect == Step01_keygen_effect(r)
          IN  /\ sent' = Append(sent, Request("keygen", pa_credentials[dev].host, effect))
              /\ IF effect \in KeygenFailures
                 THEN ExecuteReturn("False") /\ UNCHANGED <<api_keys_list, dev>>
                 ELSE /\ api_keys_list' = Step01_append(api_keys_list, effect)
                      /\ dev' = dev + 1
                      /\ UNCHANGED <<pc, result>>
    /\ UNCHANGED <<op, pa_credentials, monitorState, syncState, clock, commitSent, call,
                   blob, otherState, output, configured_devices, changes_made, iface,
                   device_status, args_step, exit_status, interfaces>>

\* after the loop: the write of api_keys_data.pkl and return True
Step01_save ==
    /\ op = "step01" /\ pc = "keygen" /\ dev > N
    /\ output' = [written |-> TRUE, api_keys_list |-> api_keys_list,
                  pa_credentials |-> pa_credentials]
    /\ ExecuteReturn("True")
    /\ UNCHANGED <<progVars, monitorState, syncState, clock, commitSent, call, blob, dev,
                   otherState, sent, configured_devices, changes_made, iface,
                   device_status, args_step, exit_status, interfaces>>

(***************************************************************************)
(* Step03_HAConfig.execute: the configuration of every device              *)
(***************************************************************************)
\* len(ha_configs), len(interface_configs)
Step03_ha_configs_len == 2

\* the three set requests of a device, in the order of the loop body
Step03_requests == <<"enable", "group", "interface">>

\* how a set request may be answered: status 200, another status, an exception
SetAnswers == {"200", "http", "error"}

\* a loop body that goes on whatever the device answered
Step03_request_effect_lenient(nth, answer) ==
    IF nth = Len(Step03_requests) THEN "append" ELSE "next"

\* after a request of the loop body: the next request, the append to
\* configured_devices, or continue with the next device
Step03_request_effect(nth, answer) ==
    IF answer # "200" THEN "continue"
    ELSE IF nth = Len(Step03_requests) THEN "append" ELSE "next"

\* the read of ha_interfaces_data.pkl and load_ha_templates
Step03_config_load ==
    /\ op = "step03_config" /\ pc = "load"
    /\ IF blob = "ha_interfaces_data"
       THEN pc' = "configure" /\ dev' = 1 /\ iface' = 1 /\ UNCHANGED result
       ELSE ExecuteReturn("False") /\ UNCHANGED <<dev, iface>>
    /\ UNCHANGED <<progVars, monitorState, syncState, clock, commitSent, call, blob,
                   otherState, sent, output, configured_devices, changes_made,
                   device_status, args_step, exit_status, interfaces>>

\* one request of the body of for i, (device, headers) in enumerate(zip(...));
\* ha_configs[i] and interface_configs[i] raise IndexError past two devices
Step03_config_request ==
    /\ op = "step03_config" /\ pc = "configure" /\ dev <= N
    /\ IF iface > 1 /\ dev > Step03_ha_configs_len
       THEN /\ dev' = dev + 1 /\ iface' = 1
            /\ UNCHANGED <<sent, configured_devices>>
       ELSE \E answer \in SetAnswers :
              LET host == pa_credentials[dev].host
                  effect == Step03_request_effect(iface, answer)
              IN  /\ sent' = Append(sent, Request(Step03_requests[iface], host, answer))
                  /\ configured_devices' =
                        IF effect = "append" THEN Append(configured_devices, host)
                        ELSE configured_devices
                  /\ IF effect = "next"
                     THEN iface' = iface + 1 /\ UNCHANGED dev
                     ELSE iface' = 1 /\ dev' = dev + 1
    /\ UNCHANGED <<progVars, monitorState, syncState, clock, commitSent, call, blob,
                   otherState, pc, result, output, changes_made, device_status,
                   args_step, exit_status, interfaces>>

\* time.sleep(15); success = self.commit_changes(pa_credentials, api_keys_list)
Step03_config_commit ==
    /\ op = "step03_config" /\ pc = "configure" /\ dev > N
    /\ \E success \in {"True", "False"} :
          /\ sent' = Append(sent, Request("commit", "all", success))
          /\ pc' = IF success = "True" THEN "verify" ELSE "force"
    /\ clock' = Later(clock, PollSleep)
    /\ UNCHANGED <<progVars, monitorState, syncState, commitSent, call, blob,
                   otherState, dev, iface, result, output, configured_devices,
                   changes_made, device_status, args_step, exit_status, interfaces>>

\* if not success: a warning, time.sleep(15), self.force_enable_ha(...)
Step03_config_force ==
    /\ op = "step03_config" /\ pc = "force"
    /\ sent' = Append(sent, Request("force_enable_ha", "all", "None"))
    /\ pc' = "verify"
    /\ clock' = Later(clock, PollSleep)
    /\ UNCHANGED <<progVars, monitorState, syncState, commitSent, call, blob,
                   otherState, dev, iface, result, output, configured_devices,
                   changes_made, device_status, args_step, exit_status, interfaces>>

\* verify_ha_status, the write of ha_config_data.pkl and return True
Step03_config_save ==
    /\ op = "step03_config" /\ pc = "verify"
    /\ output' = [written |-> TRUE, ha_config_applied |-> TRUE,
                  configured_devices |-> configured_devices]
    /\ ExecuteReturn("True")
    /\ UNCHANGED <<progVars, monitorState, syncState, clock, commitSent, call, blob,
                   otherState, dev, iface, sent, configured_devices, changes_made,
                   device_status, args_step, exit_status, interfaces>>

(***************************************************************************)
(* Step05_FirewallConfig.execute                                           *)
(***************************************************************************)
\* the requests of act_fw_int_config, act_fw_zone_config, act_fw_route_config
\* (two), act_fw_security_policy_config and act_fw_source_nat_config
Step05_requests ==
    <<"interfaces", "zones", "virtual_router", "default_route", "security_policies",
      "source_nat">>

\* a sequence that goes on to the next request whatever the device answered
Step05_request_effect_lenient(answer) == "next"

\* a status other than 200 raises, and every except clause raises again
Step05_request_effect(answer) == IF answer = "200" THEN "next" ELSE "raise"

\* self.active_fw_list[0]['host']
ActiveHost == pa_credentials[1].host

\* the read of active_fw_data.pkl and load_templates
Step05_load ==
    /\ op = "step05_firewall_config" /\ pc = "load"
    /\ IF blob = "active_fw_data"
       THEN pc' = "configure" /\ iface' = 1 /\ UNCHANGED result
       ELSE ExecuteReturn("False") /\ UNCHANGED iface
    /\ UNCHANGED <<progVars, monitorState, syncState, clock, commitSent, call, blob,
                   otherState, dev, sent, output, configured_devices, changes_made,
                   device_status, args_step, exit_status, interfaces>>

\* one request of the five act_fw_* calls; a raise reaches the outer except
Step05_request ==
    /\ op = "step05_firewall_config" /\ pc = "configure"
    /\ iface <= Len(Step05_requests)
    /\ \E answer \in SetAnswers :
          /\ sent' = Append(sent, Request(Step05_requests[iface], ActiveHost, answer))
          /\ IF Step05_request_effect(answer) = "next"
             THEN iface' = iface + 1 /\ UNCHANGED <<pc, result>>
             ELSE ExecuteReturn("False") /\ UNCHANGED iface
    /\ UNCHANGED <<progVars, monitorState, syncState, clock, commitSent, call, blob,
                   otherState, dev, output, configured_devices, changes_made,
                   device_status, args_step, exit_status, interfaces>>

\* the write of firewall_config_data.pkl and return True
Step05_save ==
    /\ op = "step05_firewall_config" /\ pc = "configure"
    /\ iface > Len(Step05_requests)
    /\ output' = [written |-> TRUE, firewall_config_applied |-> TRUE]
    /\ ExecuteReturn("True")
    /\ UNCHANGED <<progVars, monitorState, syncState, clock, commitSent, call, blob,
                   otherState, dev, iface, sent, configured_devices, changes_made,
                   device_status, args_step, exit_status, interfaces>>

(***************************************************************************)
(* Step02_HAInterfaces.execute                                             *)
(***************************************************************************)
\* what a device may answer to the get request of _check_ha_interface_status
CheckAnswers == {"ha", "no_ha", "http", "error"}

\* _check_ha_interface_status: True only for status 200 with an <ha/> element
Step02_check_ha_interface_status(answer) == answer = "ha"

\* device_status[host]['ha_interfaces'].get(interface, False)
Step02_interface_configured(status, host, interface) ==
    interface \in status.ha_interfaces[host]

\* a step that commits whether or not it changed anything
Step02_commits_always(changed) == TRUE

\* if changes_made: ... commit_changes(...)
Step02_commits(changed) == changed

\* the read of discovery_data.pkl, else of api_keys_data.pkl, and of the form
\* parameters HA1_INTERFACE and HA2_INTERFACE
Step02_load ==
    /\ op = "step02" /\ pc = "load"
    /\ IF (device_status.found \/ blob = "api_keys_data") /\ interfaces # <<>>
       THEN pc' = "configure" /\ dev' = 1 /\ iface' = 1 /\ UNCHANGED result
       ELSE ExecuteReturn("False") /\ UNCHANGED <<dev, iface>>
    /\ UNCHANGED <<progVars, monitorState, syncState, clock, commitSent, call, blob,
                   otherState, sent, output, configured_devices, changes_made,
                   device_status, args_step, exit_status, interfaces>>

\* one pass of for interface in interfaces: the status from discovery or from
\* the device, then the set request unless the interface is configured
Step02_interface ==
    /\ op = "step02" /\ pc = "configure" /\ dev <= N
    /\ \E reply \in CheckAnswers, answer \in SetAnswers :
          LET host == pa_credentials[dev].host
              interface == interfaces[iface]
              asked == IF device_status.found THEN <<>>
                       ELSE <<Request("check", host, reply)>>
              configured ==
                  IF device_status.found
                  THEN Step02_interface_configured(device_status, host, interface)
                  ELSE Step02_check_ha_interface_status(reply)
          IN  IF configured
              THEN /\ sent' = sent \o asked
                   /\ UNCHANGED <<changes_made, pc, result>>
                   /\ IF iface < Len(interfaces)
                      THEN iface' = iface + 1 /\ UNCHANGED dev
                      ELSE iface' = 1 /\ dev' = dev + 1
              ELSE /\ sent' = (sent \o asked) \o <<Request("set", host, answer)>>
                   /\ IF answer = "200"
                      THEN /\ changes_made' = TRUE
                           /\ UNCHANGED <<pc, result>>
                           /\ IF iface < Len(interfaces)
                              THEN iface' = iface + 1 /\ UNCHANGED dev
                              ELSE iface' = 1 /\ dev' = dev + 1
                      ELSE /\ ExecuteReturn("False")
                           /\ UNCHANGED <<changes_made, dev, iface>>
    /\ UNCHANGED <<progVars, monitorState, syncState, clock, commitSent, call, blob,
                   otherState, output, configured_devices, device_status, args_step,
                   exit_status, interfaces>>

\* after the loop: the commit if changes were made, the write of
\* ha_interfaces_data.pkl and return True
Step02_finish ==
    /\ op = "step02" /\ pc = "configure" /\ dev > N
    /\ \E success \in {"True", "False"} :
          IF Step02_commits(changes_made)
          THEN /\ sent' = Append(sent, Request("commit", "all", success))
               /\ IF success = "True"
                  THEN /\ output' = [written |-> TRUE, changes_made |-> changes_made]
                       /\ ExecuteReturn("True")
                  ELSE ExecuteReturn("False") /\ UNCHANGED output
          ELSE /\ output' = [written |-> TRUE, changes_made |-> changes_made]
               /\ ExecuteReturn("True")
               /\ UNCHANGED sent
    /\ UNCHANGED <<progVars, monitorState, syncState, clock, commitSent, call, blob,
                   otherState, dev, iface, configured_devices, changes_made,
                   device_status, args_step, exit_status, interfaces>>

(***************************************************************************)
(* Step06_Zones.execute                                                    *)
(***************************************************************************)
\* a step that sends its request whatever discovery found
Step06_zones_skipped_never(status) == FALSE

\* if active_host in device_status: ... if existing_zones:
Step06_zones_skipped(status) == status.found /\ status.zones

\* the reads of active_fw_data.pkl and discovery_data.pkl; with existing zones
\* the step writes zones_data.pkl and returns True at once
Step06_zones_load ==
    /\ op = "step06_zones" /\ pc = "load"
    /\ IF blob = "absent"
       THEN ExecuteReturn("False") /\ UNCHANGED output
       ELSE IF Step06_zones_skipped(device_status)
            THEN /\ output' = [written |-> TRUE, zones_skipped |-> TRUE]
                 /\ ExecuteReturn("True")
            ELSE IF blob = "no_template"
                 THEN ExecuteReturn("False") /\ UNCHANGED output
                 ELSE pc' = "configure" /\ UNCHANGED <<result, output>>
    /\ UNCHANGED <<progVars, monitorState, syncState, clock, commitSent, call, blob,
                   otherState, dev, iface, sent, configured_devices, changes_made,
                   device_status, args_step, exit_status, interfaces>>

\* the set request of the zones, then the write of zones_data.pkl
Step06_zones_request ==
    /\ op = "step06_zones" /\ pc = "configure"
    /\ \E answer \in SetAnswers :
          /\ sent' = Append(sent, Request("set", ActiveHost, answer))
          /\ IF answer = "200"
             THEN /\ output' = [written |-> TRUE, zones_skipped |-> FALSE]
                  /\ ExecuteReturn("True")
             ELSE ExecuteReturn("False") /\ UNCHANGED output
    /\ UNCHANGED <<progVars, monitorState, syncState, clock, commitSent, call, blob,
                   otherState, dev, iface, configured_devices, changes_made,
                   device_status, args_step, exit_status, interfaces>>

(***************************************************************************)
(* main                                                                    *)
(***************************************************************************)
\* an orchestrator that reports a failed step as a success
main_exit_status_lenient(success) == IF success = "raise" THEN 1 ELSE 0

\* if success: sys.exit(0) else: sys.exit(1); except Exception: sys.exit(1)
main_exit_status(success) == IF success = "True" THEN 0 ELSE 1

\* the if/elif chain on args.step: the import, the constructor and execute of
\* the step, which returns True or False or raises; else sys.exit(1)
main_dispatch ==
    /\ op = "main" /\ pc = "dispatch"
    /\ IF args_step \in main_steps
       THEN \E success \in {"True", "False", "raise"} :
               /\ sent' = Append(sent, Request("execute", args_step, success))
               /\ result' = success
               /\ pc' = "returned"
               /\ UNCHANGED exit_status
       ELSE /\ exit_status' = 1
            /\ pc' = "exited"
            /\ UNCHANGED <<sent, result>>
    /\ UNCHANGED <<progVars, monitorState, syncState, clock, commitSent, call, blob,
                   otherState, dev, iface, output, configured_devices, changes_made,
                   device_status, args_step, interfaces>>

\* sys.exit with the status the outcome of the step calls for
main_exit ==
    /\ op = "main" /\ pc = "returned"
    /\ exit_status' = main_exit_status(result)
    /\ pc' = "exited"
    /\ UNCHANGED <<progVars, monitorState, syncState, clock, commitSent, call, blob,
                   otherState, dev, iface, result, sent, output, configured_devices,
                   changes_made, device_status, args_step, interfaces>>

(***************************************************************************)
(* Step00_Discovery.execute and Step05_Interfaces.execute                  *)
(***************************************************************************)
\* the read of api_keys_data.pkl
Step00_load ==
    /\ op = "step00" /\ pc = "load"
    /\ IF blob = "api_keys_data"
       THEN pc' = "discover" /\ dev' = 1 /\ UNCHANGED result
       ELSE ExecuteReturn("False") /\ UNCHANGED dev
    /\ UNCHANGED <<progVars, monitorState, syncState, clock, commitSent, call, blob,
                   otherState, iface, sent, output, configured_devices, changes_made,
                   device_status, args_step, exit_status, interfaces>>

\* one pass of the device loop: the checks of a device, each of which takes
\* a failed request for a configuration that is not there
Step00_device ==
    /\ op = "step00" /\ pc = "discover" /\ dev <= N
    /\ \E answer \in SetAnswers :
          sent' = Append(sent, Request("get", pa_credentials[dev].host, answer))
    /\ dev' = dev + 1
    /\ UNCHANGED <<progVars, monitorState, syncState, clock, commitSent, call, blob,
                   otherState, pc, result, iface, output, configured_devices,
                   changes_made, device_status, args_step, exit_status, interfaces>>

\* the write of discovery_data.pkl and return True
Step00_save ==
    /\ op = "step00" /\ pc = "discover" /\ dev > N
    /\ output' = [written |-> TRUE, discovery_completed |-> TRUE]
    /\ ExecuteReturn("True")
    /\ UNCHANGED <<progVars, monitorState, syncState, clock, commitSent, call, blob,
                   otherState, dev, iface, sent, configured_devices, changes_made,
                   device_status, args_step, exit_status, interfaces>>

\* the reads of active_fw_data.pkl and of the interface template
Step05_interfaces_load ==
    /\ op = "step05_interfaces" /\ pc = "load"
    /\ IF blob = "active_fw_data"
       THEN pc' = "configure" /\ UNCHANGED result
       ELSE ExecuteReturn("False")
    /\ UNCHANGED <<progVars, monitorState, syncState, clock, commitSent, call, blob,
                   otherState, dev, iface, sent, output, configured_devices,
                   changes_made, device_status, args_step, exit_status, interfaces>>

\* the set request of the interfaces, then the write of interfaces_data.pkl
Step05_interfaces_request ==
    /\ op = "step05_interfaces" /\ pc = "configure"
    /\ \E answer \in SetAnswers :
          /\ sent' = Append(sent, Request("set", ActiveHost, answer))
          /\ IF answer = "200"
             THEN /\ output' = [written |-> TRUE, interfaces_configured |-> TRUE]
                  /\ ExecuteReturn("True")
             ELSE ExecuteReturn("False") /\ UNCHANGED output
    /\ UNCHANGED <<progVars, monitorState, syncState, clock, commitSent, call, blob,
                   otherState, dev, iface, configured_devices, changes_made,
                   device_status, args_step, exit_status, interfaces>>

Next ==
    \/ utils_start_commit
    \/ utils_check_jobs
    \/ utils_loop_head
    \/ utils_poll_job
    \/ utils_end_iteration
    \/ Step03_start_commit
    \/ Step03_check_jobs
    \/ Step03_loop_head
    \/ Step03_poll_job
    \/ Step03_end_iteration
    \/ Step06_start_commit
    \/ Step06_timeout
    \/ Step06_poll
    \/ Step10_start_commit
    \/ Step10_poll
    \/ Step03_execute_force_enable_ha
    \/ Step03_execute_return
    \/ Step06_force_sync_config_query
    \/ Step06_force_sync_config_trigger
    \/ Step06_wait_for_sync_completion_poll
    \/ Step06_wait_for_sync_completion_timeout
    \/ Step10_force_sync_config_query
    \/ Step10_force_sync_config_trigger
    \/ Step10_wait_for_sync_completion_poll
    \/ Step10_wait_for_sync_completion_timeout
    \/ Step04_load
    \/ Step04_attempt
    \/ Step04_query
    \/ Step04_attempt_end
    \/ Step04_finish
    \/ Step06_execute_load
    \/ Step06_execute_commit_returned
    \/ Step06_execute_save
    \/ Step10_execute_load
    \/ Step10_execute_commit_returned
    \/ Step10_execute_save
    \/ Pipeline_step
    \/ Step01_load
    \/ Step01_keygen
    \/ Step01_save
    \/ Step03_config_load
    \/ Step03_config_request
    \/ Step03_config_commit
    \/ Step03_config_force
    \/ Step03_config_save
    \/ Step05_load
    \/ Step05_request
    \/ Step05_save
    \/ Step02_load
    \/ Step02_interface
    \/ Step02_finish
    \/ Step06_zones_load
    \/ Step06_zones_request
    \/ main_dispatch
    \/ main_exit
    \/ Step00_load
    \/ Step00_device
    \/ Step00_save
    \/ Step05_interfaces_load
    \/ Step05_interfaces_request

Spec == Init /\ [][Next]_vars

\* the interpreter keeps running the function until it returns
FairSpec == Spec /\ WF_vars(Next)

(***************************************************************************)
(* Properties                                                              *)
(***************************************************************************)
Multi == op \in {"utils", "step03"}
Returned == pc = "done"
HostAt(n) == pa_credentials[n].host

\* the commit request to device n was answered with a job id
JobGiven(n) == commitResp[n].has_result /\ Truthy(commitResp[n].job)

\* the commit request to device n was answered with status 200 and no job id
NoJobId(n) == commitResp[n].status_code = 200 /\ ~JobGiven(n)

\* the commit request to device n failed: transport error or another status than 200
StartFailed(n) == commitResp[n].error \/ commitResp[n].status_code = 500

\* device n had a commit job of its own and a poll of it answered FIN/OK
OwnFinOK(n) == JobGiven(n) /\ HostAt(n) \in finOK

\* device n's job is in jobid_dict under the device's own host, credential and job id
Pending(n) ==
    \E m \in 1..Len(jobid_dict) :
        /\ jobid_dict[m].host = HostAt(n)
        /\ jobid_dict[m].headers = api_keys_list[n]
        /\ jobid_dict[m].jobid = commitResp[n].job

IsPrefix(s, t) == Len(s) <= Len(t) /\ \A k \in 1..Len(s) : s[k] = t[k]

\* C1: whenever a multi-device commit operation returns True, every device of the
\* input list had a commit job of its own that was polled FIN with result OK.
C1_TrueMeansEveryDeviceCommitted ==
    (Multi /\ Returned /\ result = "True") => \A n \in 1..N : OwnFinOK(n)

\* C2: if every device's commit request returned a job id and every job was polled
\* FIN/OK, the iteration ends there, the operation returns True and the ready set
\* holds exactly the N hosts.
C2_AllFinOKGivesTrue ==
    (Multi /\ \A n \in 1..N : OwnFinOK(n)) =>
        /\ pc \in {"end_iter", "done"}
        /\ ready_devices = Hosts
        /\ Returned => result = "True"

C2_Witness ==
    /\ op = "step03" /\ N = 2 /\ Returned /\ result = "True"
    /\ \A n \in 1..N : OwnFinOK(n)
    /\ ready_devices = {"fw1", "fw2"}

\* C3: under the strict policy (utils_pa.commit_changes), once a poll answered FIN
\* with another result than OK the operation has returned False, whatever the other
\* devices answered.
C3_StrictFailureIsFinal ==
    (op = "utils" /\ lastPoll.answer = "FIN/other") => (Returned /\ result = "False")

C3_Witness ==
    /\ op = "utils" /\ N = 2 /\ Returned /\ result = "False"
    /\ lastPoll.host = "fw2" /\ lastPoll.answer = "FIN/other"
    /\ "fw1" \in finOK /\ "fw1" \in ready_devices

\* C4: a device whose commit request returned no job id is never sent a job-status
\* poll, is never recorded ready, and the overall result is not success.
C4_NoJobIdNeverPolled ==
    Multi => \A n \in 1..N :
        NoJobId(n) =>
            /\ HostAt(n) \notin polled
            /\ HostAt(n) \notin ready_devices
            /\ Returned => result = "False"

\* C5: every job-status poll goes to the host, with the credential and the job id,
\* of one device of the input list; a device's job stays pending under its own host,
\* credential and job id until a poll of that device answers FIN, also when another
\* device returned the same job id; a host is recorded ready only after a poll
\* addressed to it answered FIN/OK.
C5_PollsOwnJob ==
    Multi =>
        /\ lastPoll # NoPoll =>
              \E n \in 1..N :
                  /\ lastPoll.host = HostAt(n)
                  /\ lastPoll.key = api_keys_list[n].key
                  /\ commitResp[n].has_result
                  /\ lastPoll.jobid = commitResp[n].job
        /\ \A n \in 1..N :
              (commitResp[n].has_result /\ (op = "step03" => Truthy(commitResp[n].job)))
                  => (Pending(n) \/ HostAt(n) \in finSeen)
        /\ ready_devices \subseteq finOK

C5_Witness ==
    /\ Multi /\ N = 2 /\ pc = "loop"
    /\ commitResp[1].job = "7" /\ commitResp[2].job = "7"
    /\ finOK = {"fw2"} /\ ready_devices = {"fw2"}
    /\ Pending(1) /\ ~Pending(2)

\* C6 (as amended): in each iteration the jobs pending at its start are polled in
\* dictionary order, each at most once, and all of them unless a poll of that
\* iteration ended the operation with failure (a poll that raised an error, or under
\* the strict policy a FIN with another result than OK); a job answering ACT changes
\* nothing and stays pending; a job answering FIN/OK is recorded ready and removed
\* at the end of the iteration; when the pending set becomes empty no further sleep
\* or poll follows, and the operation returns True if every device is then ready.
C6_IterationState ==
    Multi =>
        /\ IsPrefix(iterPolled, iterKeys)
        /\ pc = "end_iter" => iterPolled = iterKeys
        /\ (Returned /\ iterPolled # iterKeys) =>
              /\ result = "False"
              /\ lastPoll.answer \in
                    (IF op = "utils" THEN Raised \cup {"FIN/other"} ELSE Raised)

C6_PollStep ==
    (Multi /\ Len(iterPolled') > Len(iterPolled)) =>
        /\ lastPoll'.answer = "ACT" =>
              /\ pc' # "done"
              /\ UNCHANGED <<jobid_dict, completed_jobs, ready_devices>>
        /\ lastPoll'.answer = "FIN/OK" =>
              /\ lastPoll'.host \in ready_devices'
              /\ iterPolled'[Len(iterPolled')] \in Range(completed_jobs')
              /\ pc' # "done"

C6_EndStep ==
    (Multi /\ pc = "end_iter") =>
        /\ Range(DictKeys(jobid_dict')) = Range(DictKeys(jobid_dict)) \ Range(completed_jobs)
        /\ jobid_dict' = <<>> =>
              /\ clock' = clock
              /\ (pc' = "done" \/ (op = "step03" /\ pc' = "loop"))
              /\ ready_devices' = Hosts => (pc' = "done" /\ result' = "True")

C7_DeadlineAtLoopCondition ==
    /\ []((op \in {"utils", "step03", "step06"} /\ timedOut) =>
              (Returned /\ result = "False"))
    /\ [][(op \in {"utils", "step03", "step06"} /\ timedOut) =>
              UNCHANGED <<lastPoll, polled, iters, clock>>]_vars

C7_Witness ==
    /\ op = "utils" /\ N = 2 /\ timedOut /\ Returned /\ result = "False"
    /\ Len(jobid_dict) = 2 /\ polled = {"fw1", "fw2"}

\* C7 (as stated): once the deadline has elapsed with a job not yet seen FIN, no
\* further poll is sent and the operation returns failure, never success.
C7_Original ==
    /\ ~latePoll
    /\ ~(HasDeadline /\ Returned /\ result = "True" /\ Expired(clock))

C9_NoJobsNoPoll ==
    (Multi /\ pc # "commit" /\ \A n \in 1..N : ~JobGiven(n)) =>
        (Returned /\ result = "False" /\ polled = {})

\* C10: one commit request goes to every device of the input list, in input order
\* and before any poll; a failed start on one device does not keep the request from
\* the remaining devices, and it makes the overall result a failure.
C10_CommitRequestToEveryDevice ==
    Multi =>
        /\ IsPrefix(commitSent, [n \in 1..N |-> HostAt(n)])
        /\ polled # {} => Len(commitSent) = N
        /\ pc # "commit" => Len(commitSent) = N
        /\ (Returned /\ \E n \in 1..N : StartFailed(n)) => result = "False"

\* behaviours that are one call of one commit monitor
Monitor == op \in {"utils", "step03", "step06", "step10"}

\* the job of the latest poll is still pending and its device is not recorded ready
LastPolledPending ==
    IF Multi
    THEN /\ \E m \in 1..Len(jobid_dict) :
               jobid_dict[m].host = lastPoll.host /\ jobid_dict[m].jobid = lastPoll.jobid
         /\ lastPoll.host \notin ready_devices
    ELSE jobid = lastPoll.jobid /\ results_commit \in {"unset", "timeout"}

\* a poll with one of these answers is a transient miss: the job stays pending and
\* not ready, the operation has not returned other than through the deadline check
\* of the loop condition, and the job is among those of the iteration that follows
TransientMiss(answers) ==
    (Monitor /\ lastPoll.answer \in answers) =>
        /\ LastPolledPending
        /\ Returned => (timedOut /\ result = "False")
        /\ (Multi /\ pc = "poll") =>
              UniqueKey(lastPoll.host, lastPoll.jobid) \in Range(iterKeys)

\* a poll was sent and its job has not been taken off the pending jobs
LastPolledListed ==
    /\ lastPoll # NoPoll
    /\ Multi => \E m \in 1..Len(jobid_dict) :
                    jobid_dict[m].host = lastPoll.host /\ jobid_dict[m].jobid = lastPoll.jobid

\* C11: a job-status poll whose body is unparseable or has no job element is a
\* transient miss in every commit monitor: the job is not marked terminal, the
\* operation does not return because of it, and the job is polled again in the next
\* iteration while the deadline has not passed.
C11_UnparseableOrNoJobIsMiss == TransientMiss({"unparseable", "nojob"})

\* C12: a single failed status poll (another HTTP status than 200, or a transport
\* error) is tolerated: it does not end the operation and changes no job's state, and
\* the job is polled again; only a FIN with another result than OK is terminal.
C12_FailedPollTolerated ==
    /\ TransientMiss({"error", "http"})
    /\ (Monitor /\ Returned /\ result = "False" /\ ~timedOut /\ LastPolledListed)
          => lastPoll.answer = "FIN/other"

\* C13: under the lenient policy a job polled FIN with another result than OK is
\* taken off the pending jobs and its device is not recorded ready, the jobs of the
\* other devices are polled on until each is terminal or the deadline passes, and
\* the result is False.
C13_LenientFailureRecorded ==
    op = "step03" => \A n \in 1..N :
        (HostAt(n) \in finSeen \ finOK) =>
            /\ HostAt(n) \notin ready_devices
            /\ pc = "loop" => ~Pending(n)
            /\ Returned => result = "False"
            /\ (Returned /\ ~timedOut) =>
                  \A m \in 1..N : JobGiven(m) => HostAt(m) \in finSeen

\* number of commit requests sent to host h in this execution
CommitRequests(h) == Cardinality({k \in 1..Len(commitSent) : commitSent[k] = h})

\* C14: within one execution of a step every device receives at most one commit
\* request, and once a commit operation has failed no further commit request is
\* sent.
C14_NoCommitRetrigger ==
    /\ \A h \in Hosts : CommitRequests(h) <= 1
    /\ call = 2 => Len(commitSent) <= N

Sync == op \in {"step06_sync", "step10_sync"}

\* C15: when the first HA state query reports synchronized, _force_sync_config
\* returns success with no sync-to-remote request and no further state query.
C15_AlreadySynchronized ==
    (Sync /\ firstState = "synchronized") =>
        /\ Returned /\ result = "True" /\ results_ha_sync = "success"
        /\ triggers = 0 /\ statePolls = 1 /\ check = 0

C15_Witness ==
    /\ op = "step10_sync" /\ firstState = "synchronized" /\ Returned /\ result = "True"
    /\ statePolls = 1

\* C16: when the first HA state query reports not synchronized, one sync-to-remote
\* request is sent, before any check of the wait; none is sent afterwards, whatever
\* the checks report, not synchronized included.
C16_State ==
    (Sync /\ firstState = "not synchronized") =>
        /\ triggers <= 1
        /\ pc = "sync_trigger" => (triggers = 0 /\ check = 0 /\ statePolls = 1)
        /\ pc \in {"sync_wait", "done"} => triggers = 1
        /\ statePolls = check + 1

C16_Step ==
    (Sync /\ firstState = "not synchronized" /\ check' > check) => triggers' = triggers

C16_ExactlyOneTrigger == []C16_State /\ [][C16_Step]_vars

C16_Witness ==
    /\ op = "step06_sync" /\ firstState = "not synchronized" /\ Returned
    /\ check = Step06_max_checks /\ lastState = "not synchronized" /\ triggers = 1
    /\ results_ha_sync = "timeout"

C18_InProgressOnlyWaits ==
    (Sync /\ firstState = "synchronization in progress") =>
        /\ triggers = 0 /\ triggerAnswer = "none"
        /\ pc \in {"sync_wait", "done"}
        /\ statePolls = check + 1
        /\ Returned => (wait_result \in {"True", "False"} /\ result = wait_result)

C18_Witness ==
    /\ op = "step10_sync" /\ firstState = "synchronization in progress" /\ Returned
    /\ result = "True" /\ wait_result = "True" /\ check = 3 /\ triggers = 0

\* the three values of running-sync that _force_sync_config knows
KnownStates == {"synchronized", "synchronization in progress", "not synchronized"}

\* C19: when the first HA state query reports a value that is none of the three
\* known ones, a missing field included, _force_sync_config of both steps returns a
\* failure value, records an outcome in results['ha_sync'], and sends neither a
\* sync-to-remote request nor a further state query.
C19_UnknownStateFails ==
    (Sync /\ firstState \notin KnownStates \cup {NoState}) =>
        /\ Returned /\ result \in {"False", "None"}
        /\ results_ha_sync # "unset"
        /\ triggers = 0 /\ statePolls = 1

\* C20: when the first state is not synchronized and the sync-to-remote request
\* fails (another status than 200, or a transport error), the operation returns
\* failure at once: the wait is not entered and no state query follows.
C20_TriggerFailedNoWait ==
    (Sync /\ triggerAnswer \in {"error", "http"}) =>
        /\ firstState = "not synchronized"
        /\ Returned /\ result = "False" /\ results_ha_sync \in {"error", "failed"}
        /\ check = 0 /\ statePolls = 1 /\ wait_result = "none"

C20_Witness ==
    /\ op = "step10_sync" /\ triggerAnswer = "http" /\ Returned /\ result = "False"
    /\ results_ha_sync = "failed" /\ statePolls = 1

\* max_checks of the running wait
MaxChecks == IF op = "step06_sync" THEN Step06_max_checks ELSE Step10_max_checks

\* C21: the wait for the synchronisation ends after at most max_checks state
\* queries (12 in step_06_commit, 8 in step_10_commit); when none of the queries
\* of the call reported synchronized it returns False and a non-success outcome is
\* recorded ('timeout' in step_06_commit when the checks are exhausted).
C21_State ==
    Sync =>
        /\ check <= MaxChecks
        /\ statePolls <= check + 1
        /\ wait_result # "none" => Returned
        /\ (Returned /\ wait_result # "none" /\ ~sawSync) =>
              /\ result = "False" /\ wait_result = "False"
              /\ results_ha_sync \in {"timeout", "error", "failed"}
              /\ (op = "step06_sync" /\ lastQuery \notin {"error", "unparseable"})
                    => (results_ha_sync = "timeout" /\ check = Step06_max_checks)

\* every step of the wait begins a check or returns, so that with check bounded by
\* max_checks the wait ends
C21_Step ==
    (Sync /\ pc = "sync_wait") => (check' = check + 1 \/ pc' = "done")

C22_Step ==
    (Sync /\ check' > check) =>
        /\ (lastQuery' = "http" \/ (lastQuery' = "state" /\ lastState' # "synchronized"))
              => /\ pc' = "sync_wait"
                 /\ UNCHANGED <<result, results_ha_sync, wait_result, triggers>>
        /\ (lastQuery' = "state" /\ lastState' = "synchronized")
              => /\ pc' = "done" /\ result' = "True"
                 /\ results_ha_sync' = "success" /\ wait_result' = "True"

C22_OnlySynchronizedEndsWait == [][C22_Step]_vars

C22_Witness ==
    /\ op = "step10_sync" /\ firstState = "not synchronized" /\ Returned
    /\ result = "True" /\ check = Step10_max_checks /\ lastState = "synchronized"

(***************************************************************************)
(* The commit-and-sync steps as a whole                                    *)
(***************************************************************************)
Execute == op \in ExecuteOps
Ended == pc = "exec_done"
SyncRecorded == commit_sync_data.commit_completed /\ commit_sync_data.sync_completed

\* C23: in both commit-and-sync steps an HA sync is recorded as complete
\* (results['ha_sync'] = 'success', and the saved sync_completed flag True)
\* only if some HA sync-state query of that execution returned synchronized.
C23_SyncCompleteNeedsSynchronized ==
    Execute =>
        /\ results_ha_sync = "success" => sawSync
        /\ SyncRecorded => sawSync

\* C29: in the commit-and-sync steps no HA sync-state query and no sync
\* trigger is sent unless the commit job of that execution was polled as FIN/OK
\* first; when the commit fails, errors or times out the step returns False
\* without any sync request.
C29_State ==
    Execute =>
        /\ (statePolls > 0 \/ triggers > 0) =>
              /\ finOK = {pa_credentials[1].host}
              /\ results_commit = "success"
        /\ (Ended /\ results_commit \in {"failed", "error", "timeout"}) =>
              /\ result = "False"
              /\ statePolls = 0 /\ triggers = 0
              /\ ~commit_sync_data.commit_completed

C29_Step ==
    (Execute /\ (statePolls' > statePolls \/ triggers' > triggers)) =>
        /\ finOK = {pa_credentials[1].host}
        /\ call = 2

C29_SyncOnlyAfterCommit == []C29_State /\ [][C29_Step]_vars

C29_Witness ==
    /\ op = "step10_execute" /\ Ended /\ result = "True"
    /\ finOK = {pa_credentials[1].host} /\ triggers = 1 /\ statePolls > 1
    /\ SyncRecorded /\ ~commit_sync_data.commit_skipped

\* C28: for each consecutive pair of pipeline steps every key the later step
\* reads from the state file of the earlier step is a key the earlier step
\* writes when it succeeds, so that after a successful predecessor no step
\* fails for a key missing in its input state.
C28_KeysReadAreWritten ==
    (op = "pipeline" /\ stage > 1) =>
        /\ Reads[PipelineSteps[stage]].file = Writes[PipelineSteps[stage - 1]].file
        /\ Reads[PipelineSteps[stage]].keys \subseteq files[Reads[PipelineSteps[stage]].file]
        /\ key_error = "none"

(***************************************************************************)
(* The active-node resolver                                                *)
(***************************************************************************)
Resolver == op = "step04"
NoActive == <<-1, 0>>
QueryFailures == {"exception", "http", "no_state"}

\* C24: the resolver returns the first device, in input order, that reports
\* active in the earliest attempt where any device does: the devices before it in
\* that attempt were queried and did not report active, the device and its
\* key are what the step returns and saves, and once a device has reported
\* active no further HA state query is sent, in that attempt or a later one.
C24_State ==
    Resolver =>
        /\ pc = "query" =>
              /\ Len(attemptAnswers) = dev - 1
              /\ \A k \in 1..Len(attemptAnswers) : attemptAnswers[k] # "active"
              /\ activeAt = NoActive
        /\ activeAt # NoActive =>
              /\ activeAt = <<attempt, dev>>
              /\ Len(attemptAnswers) = dev
              /\ attemptAnswers[dev] = "active"
              /\ \A k \in 1..(dev - 1) : attemptAnswers[k] # "active"
              /\ pc \in {"attempt_end", "finish", "done"}
        /\ (Returned /\ activeAt # NoActive) =>
              /\ result = "True"
              /\ active_fw_list = <<pa_credentials[activeAt[2]]>>
              /\ active_fw_headers = <<api_keys_list[activeAt[2]]>>
              /\ active_fw_data.identification_completed
              /\ active_fw_data.active_fw_device = pa_credentials[activeAt[2]]
              /\ active_fw_data.active_fw_key = api_keys_list[activeAt[2]].key

C24_Step ==
    (Resolver /\ activeAt # NoActive) => UNCHANGED <<attemptAnswers, attempt, dev, activeAt>>

C24_FirstActiveShortCircuits == []C24_State /\ [][C24_Step]_vars

C24_Witness ==
    /\ Resolver /\ Returned /\ N = 2 /\ activeAt = <<2, 1>>
    /\ active_fw_list = <<pa_credentials[1]>> /\ attemptAnswers = <<"active">>

\* C25: when no device reports active in any attempt the resolver selects
\* the first input device together with its key, logs the fallback warning,
\* raises no exception and the step returns success.
C25_FallbackFirstDevice ==
    (Resolver /\ Returned /\ attempt >= 0 /\ activeAt = NoActive) =>
        /\ result = "True"
        /\ attempt = Step04_max_attempts - 1
        /\ fallback_warning
        /\ active_fw_list = <<pa_credentials[1]>>
        /\ active_fw_headers = <<api_keys_list[1]>>
        /\ active_fw_data.identification_completed
        /\ active_fw_data.active_fw_device = pa_credentials[1]
        /\ active_fw_data.active_fw_key = api_keys_list[1].key

C25_Witness ==
    /\ Resolver /\ Returned /\ N = 2 /\ activeAt = NoActive /\ fallback_warning
    /\ attemptAnswers = <<"passive", "passive">> /\ result = "True"
    /\ active_fw_list = <<pa_credentials[1]>>

\* C26: a device whose HA state query fails (transport error, non-200
\* status, unparseable body, missing state field) is not active for that
\* attempt only: the step does not fail because of it, the remaining devices
\* of the attempt are still queried, and the next attempt queries it again.
C26_State ==
    Resolver =>
        /\ result = "False" => (blob = "absent" /\ attempt = -1)
        /\ (pc = "attempt_end" /\ active_fw_list = <<>>) => Len(attemptAnswers) = N
        /\ (pc = "query" /\ dev = 1) => attemptAnswers = <<>>

C26_Step ==
    (/\ Resolver /\ pc = "query"
     /\ Len(attemptAnswers') = Len(attemptAnswers) + 1
     /\ attemptAnswers'[Len(attemptAnswers')] \in QueryFailures)
        => /\ UNCHANGED <<result, active_fw_list, active_fw_headers, activeAt>>
           /\ dev < N => (pc' = "query" /\ dev' = dev + 1)
           /\ dev = N => pc' = "attempt_end"

C26_FailedQueryIsNotActive == []C26_State /\ [][C26_Step]_vars

C26_Witness ==
    /\ Resolver /\ Returned /\ result = "True" /\ N = 2 /\ attempt = 1
    /\ attemptAnswers = <<"exception", "active">>
    /\ active_fw_list = <<pa_credentials[2]>>

\* the position of the resolver in its run, which every step of it advances
Step04_progress ==
    CASE pc = "load" -> 0
      [] pc = "attempt" -> 1 + (attempt + 1) * (N + 2)
      [] pc = "query" -> 1 + attempt * (N + 2) + dev
      [] pc = "attempt_end" -> 1 + attempt * (N + 2) + N + 1
      [] pc = "finish" -> 2 + Step04_max_attempts * (N + 2)
      [] OTHER -> 3 + Step04_max_attempts * (N + 2)

\* C27: the resolver makes at most max_attempts (5) attempts and queries
\* each device at most once per attempt; a new attempt starts only when the
\* previous one found no active device; it sleeps the retry delay between two
\* consecutive attempts and not after the last one; and it terminates: every
\* step advances its bounded position.
C27_State ==
    (Resolver /\ blob = "ha_config_data" /\ pc # "load") =>
        /\ attempt <= Step04_max_attempts - 1
        /\ Len(attemptAnswers) <= N
        /\ pc \in {"query", "attempt_end"} =>
              clock = Step04_ha_wait + Step04_wait_time * attempt
        /\ pc = "attempt" =>
              clock = Step04_ha_wait + Step04_wait_time *
                         (IF attempt + 1 < Step04_max_attempts
                          THEN attempt + 1 ELSE Step04_max_attempts - 1)
        /\ pc \in {"finish", "done"} =>
              clock = Step04_ha_wait + Step04_wait_time * attempt

C27_Step ==
    Resolver =>
        /\ Step04_progress' > Step04_progress
        /\ Step04_progress' <= 3 + Step04_max_attempts * (N + 2)
        /\ attempt' # attempt =>
              /\ attempt' = attempt + 1
              /\ active_fw_list = <<>> /\ activeAt = NoActive

C27_BoundedAttempts == []C27_State /\ [][C27_Step]_vars

C27_Witness ==
    /\ Resolver /\ Returned /\ N = 2 /\ attempt = Step04_max_attempts - 1
    /\ activeAt = NoActive
    /\ clock = Step04_ha_wait + Step04_wait_time * (Step04_max_attempts - 1)
    /\ attemptAnswers = <<"http", "unexpected">>

\* C30: in every commit-monitoring loop two consecutive status polls of the
\* same pending job are separated by a sleep: no job is polled again while
\* the monitor has not slept since that job's previous poll, whatever that
\* poll returned.
C30_SleepBetweenPolls ==
    (op \in {"utils", "step03", "step06", "step10"}) => ~repollNoSleep

\* C31: in step_06_commit, once the commit succeeded the step returns True
\* whatever the HA sync outcome is (success, failed, unknown, timeout or
\* error), and the saved state has commit_completed True and sync_completed
\* True exactly when the sync outcome is 'success'.
C31_SyncOutcomeTolerated ==
    (op = "step06_execute" /\ Ended /\ results_commit = "success") =>
        /\ result = "True"
        /\ results_ha_sync \in {"success", "failed", "unknown", "timeout", "error"}
        /\ commit_sync_data.commit_completed
        /\ commit_sync_data.sync_completed <=> (results_ha_sync = "success")

C31_Witness ==
    /\ op = "step06_execute" /\ Ended /\ results_commit = "success"
    /\ results_ha_sync = "timeout" /\ result = "True"
    /\ commit_sync_data.commit_completed /\ ~commit_sync_data.sync_completed

(***************************************************************************)
(* The pending set and the ready set of the multi-device monitors          *)
(***************************************************************************)
InPollLoop == Multi /\ pc \in {"loop", "poll", "end_iter"}
PendingHosts == {jobid_dict[m].host : m \in 1..Len(jobid_dict)}
PendingKeys == Range(DictKeys(jobid_dict))

\* a host is recorded ready only after its own job was polled FIN/OK, and the
\* jobs still to be polled in the running iteration are pending ones
C36_ReadyAndPolled ==
    /\ \A n \in 1..N : HostAt(n) \in ready_devices => OwnFinOK(n)
    /\ ready_devices \subseteq Hosts
    /\ pc = "poll" => \A m \in 1..Len(queue) : queue[m].key \in PendingKeys

\* the pending set only shrinks, and a poll is sent for a pending job only
C36_Step ==
    InPollLoop =>
        /\ PendingKeys' \subseteq PendingKeys
        /\ Len(iterPolled') > Len(iterPolled) =>
              /\ iterPolled'[Len(iterPolled')] \in PendingKeys
              /\ iterPolled'[Len(iterPolled')] \notin Range(iterPolled)

\* C36 (as amended): in the poll loop of the multi-device monitors the
\* pending-job set only shrinks, a host is recorded ready only after its own
\* job was polled FIN/OK, a job removed from the pending set is never polled
\* again, and at the start of every iteration, and when the monitor returns
\* True, a host recorded ready has no pending job; within an iteration the job
\* of a host just recorded ready stays pending until the removal at the
\* iteration's end, and is not polled again before it.
C36_PendingAndReady ==
    /\ [](Multi => C36_ReadyAndPolled)
    /\ []((Multi /\ (pc = "loop" \/ (Returned /\ result = "True")))
              => ready_devices \cap PendingHosts = {})
    /\ [][C36_Step]_vars

C36_Witness ==
    /\ op = "step03" /\ N = 2 /\ pc = "loop" /\ ready_devices = {"fw2"}
    /\ PendingHosts = {"fw1"} /\ iters >= 1

\* C36 (as stated): in every reachable state of the poll loop a host recorded
\* ready has no pending job.
C36_Original == InPollLoop => ready_devices \cap PendingHosts = {}

\* C38: device and credential stay paired. When api_keys succeeds the saved
\* api_keys_list has the length and order of pa_credentials, its entry at
\* each index being the key that device issued, and a device failing key
\* generation makes the step fail and save nothing; when identify_active
\* succeeds active_fw_list and active_fw_headers hold one entry each, the
\* header being the one at the input index of the chosen device, found active
\* or chosen by fallback.
C38_DeviceKeyPaired ==
    /\ (op = "step01" /\ Ended) =>
          /\ (\E k \in 1..Len(sent) : sent[k].answer \in KeygenFailures)
                => result = "False"
          /\ result = "False" => ~output.written
          /\ result = "True" =>
                /\ output.written
                /\ output.pa_credentials = pa_credentials
                /\ Len(output.api_keys_list) = N /\ Len(sent) = N
                /\ \A k \in 1..N :
                      /\ sent[k].host = pa_credentials[k].host
                      /\ output.api_keys_list[k].key = sent[k].answer
    /\ (Resolver /\ Returned /\ result = "True") =>
          /\ Len(active_fw_list) = 1 /\ Len(active_fw_headers) = 1
          /\ active_fw_data.active_fw_list = active_fw_list
          /\ active_fw_data.active_fw_headers = active_fw_headers
          /\ \E k \in 1..N :
                /\ k = (IF activeAt = NoActive THEN 1 ELSE activeAt[2])
                /\ active_fw_list[1] = pa_credentials[k]
                /\ active_fw_headers[1] = api_keys_list[k]

C38_Witness ==
    /\ op = "step01" /\ Ended /\ result = "True" /\ N = 2
    /\ output.written /\ output.api_keys_list = <<[key |-> "k2"], [key |-> "k1"]>>

\* the set requests sent to a host so far, in the order they were sent
SetRequests(host) ==
    LET ToHost(e) == e.host = host /\ e.kind \in Range(Step03_requests)
    IN  SelectSeq(sent, ToHost)

\* every set request sent to the host was acknowledged with status 200
FullyAcknowledged(host) ==
    /\ Len(SetRequests(host)) = Len(Step03_requests)
    /\ \A j \in 1..Len(Step03_requests) : SetRequests(host)[j].answer = "200"

\* the commit of the run was answered with a failure
CommitFailed == \E k \in 1..Len(sent) : sent[k].kind = "commit" /\ sent[k].answer # "True"

Configuring == op = "step03_config"

\* C32: Step03_HAConfig.execute tolerates a failed commit (returns True with
\* ha_config_applied True saved) only when the three HA configuration requests
\* were acknowledged on every device of the input list.
C32_ToleratedOnlyWhenPushed ==
    (Configuring /\ Ended /\ result = "True" /\ CommitFailed) =>
        \A k \in 1..N : FullyAcknowledged(pa_credentials[k].host)

\* C33: for each device the HA configuration requests go out in the order
\* enable, group, interface, each only after the previous one was answered
\* with status 200; a failure skips the rest of that device only, every
\* device of the list is still attempted, and configured_devices holds
\* exactly the hosts whose three requests were acknowledged.
C33_ThreeStepPerDevice ==
    Configuring =>
        /\ \A k \in 1..N :
              LET sentTo == SetRequests(pa_credentials[k].host)
              IN  /\ Len(sentTo) <= Len(Step03_requests)
                  /\ \A j \in 1..Len(sentTo) :
                        /\ sentTo[j].kind = Step03_requests[j]
                        /\ j < Len(sentTo) => sentTo[j].answer = "200"
        /\ \A m, n \in 1..Len(sent) :
              (m < n /\ sent[m].kind \in Range(Step03_requests)
                     /\ sent[n].kind \in Range(Step03_requests))
                 => \E a, b \in 1..N : /\ a <= b
                                       /\ sent[m].host = pa_credentials[a].host
                                       /\ sent[n].host = pa_credentials[b].host
        /\ Range(configured_devices) =
              {pa_credentials[k].host : k \in {d \in 1..N :
                                                 FullyAcknowledged(pa_credentials[d].host)}}
        /\ (pc \in {"force", "verify", "exec_done"} /\ blob = "ha_interfaces_data") =>
              \A k \in 1..N : Len(SetRequests(pa_credentials[k].host)) >= 1
        /\ (Ended /\ result = "True") =>
              /\ output.written
              /\ output.configured_devices = configured_devices

C33_Witness ==
    /\ Configuring /\ Ended /\ result = "True" /\ N = 2
    /\ Len(SetRequests("fw1")) = 2 /\ SetRequests("fw1")[2].answer = "http"
    /\ configured_devices = <<"fw2">>

\* an answer other than status 200 was given to a request of the run
SomeRequestFailed ==
    \E k \in 1..Len(sent) : sent[k].kind # "commit" /\ sent[k].answer # "200"

\* C34: Step05_FirewallConfig.execute sends its six requests to the active
\* device in the order interfaces, zones, virtual router, default route,
\* security policies, source NAT, each at most once; the first failing request
\* is the last one sent, and the step then returns False and writes no output.
C34_SixInOrderNoRetry ==
    op = "step05_firewall_config" =>
        /\ Len(sent) <= Len(Step05_requests)
        /\ \A j \in 1..Len(sent) :
              /\ sent[j].kind = Step05_requests[j]
              /\ sent[j].host = ActiveHost
              /\ j < Len(sent) => sent[j].answer = "200"
        /\ SomeRequestFailed => (Ended /\ result = "False")
        /\ (Ended /\ result = "False") => ~output.written
        /\ (Ended /\ result = "True") =>
              /\ Len(sent) = Len(Step05_requests)
              /\ ~SomeRequestFailed
              /\ output.written

C34_Witness ==
    /\ op = "step05_firewall_config" /\ Ended /\ result = "False"
    /\ Len(sent) = 4 /\ sent[4].kind = "default_route" /\ sent[4].answer = "http"
    /\ ~output.written

\* the requests of the run of one kind
SentOfKind(kind) == {k \in 1..Len(sent) : sent[k].kind = kind}

\* step_02 was told, by discovery or by the device, that every interface of
\* every host is configured for HA
AllReportedConfigured ==
    /\ interfaces # <<>>
    /\ \A k \in 1..N : \A j \in 1..Len(interfaces) :
          IF device_status.found
          THEN interfaces[j] \in device_status.ha_interfaces[pa_credentials[k].host]
          ELSE /\ Len(sent) = N * Len(interfaces)
               /\ \A m \in 1..Len(sent) : sent[m].kind = "check" /\ sent[m].answer = "ha"

\* C35: re-running a configuration step on configured devices changes nothing.
\* In Step02_HAInterfaces, when every HA interface of every device is reported
\* configured, no set request and no commit is sent and the step returns True,
\* and a commit is sent only after a set request was acknowledged in the run;
\* in Step06_Zones, when discovery reports existing zones on the active host,
\* no set request is sent and the step returns True.
C35_RerunIdempotent ==
    /\ (op = "step02" /\ Ended /\ AllReportedConfigured) =>
          /\ SentOfKind("set") = {} /\ SentOfKind("commit") = {}
          /\ result = "True" /\ output.written /\ ~output.changes_made
    /\ op = "step02" =>
          /\ SentOfKind("commit") # {} =>
                \E m \in SentOfKind("set") :
                    sent[m].answer = "200" /\ \A c \in SentOfKind("commit") : m < c
          /\ (Ended /\ result = "True" /\ changes_made) => SentOfKind("commit") # {}
    /\ (op = "step06_zones" /\ Ended /\ blob # "absent"
          /\ device_status.found /\ device_status.zones) =>
          /\ sent = <<>>
          /\ result = "True" /\ output.written /\ output.zones_skipped

C35_Witness ==
    /\ op = "step02" /\ Ended /\ N = 2 /\ ~device_status.found
    /\ AllReportedConfigured /\ result = "True" /\ SentOfKind("set") = {}

C35_ZonesWitness ==
    /\ op = "step06_zones" /\ Ended /\ device_status.found /\ device_status.zones
    /\ sent = <<>> /\ result = "True"

Exited == op = "main" /\ pc = "exited"

\* C39: main exits with status 0 exactly when the execute of the dispatched
\* step returned True; an unknown step name exits with status 1 and no step
\* is executed; an exception raised while running a step exits with status 1.
C39_ExitStatus ==
    /\ Exited =>
          /\ exit_status \in {0, 1}
          /\ exit_status = 0 <=>
                (Len(sent) = 1 /\ sent[1].kind = "execute" /\ sent[1].answer = "True")
          /\ args_step \notin main_steps => (exit_status = 1 /\ sent = <<>>)
          /\ result = "raise" => exit_status = 1
          /\ \A k \in 1..Len(sent) : sent[k].host = args_step
    /\ (op = "main" /\ ~Exited) => exit_status = -1

C39_Witness ==
    /\ Exited /\ args_step = "identify_active" /\ result = "True" /\ exit_status = 0

\* the step has returned, with the value
StepReturned(value) ==
    /\ result = value
    /\ \/ Resolver /\ Returned
       \/ (Execute \/ op \in ConfigOps) /\ Ended

\* the output state file of the step has been written in this run
OutputWritten ==
    CASE Resolver -> active_fw_data.identification_completed
      [] Execute -> commit_sync_data.commit_completed
      [] OTHER -> output.written

\* the state file the step reads, and the one it falls back on, are missing
InputAbsent ==
    CASE op = "step02" -> ~device_status.found /\ blob = "absent"
      [] op = "step06_execute" -> blob \in {"absent", "active_fw_data"}
      [] OTHER -> blob = "absent"

\* no request has been sent to a device in this run
NothingSent ==
    /\ sent = <<>> /\ commitSent = <<>> /\ attemptAnswers = <<>>
    /\ lastPoll = NoPoll /\ polled = {} /\ lastQuery = "none"
    /\ statePolls = 0 /\ triggers = 0

StepOps == {"step04"} \cup ExecuteOps \cup ConfigOps

\* C37: for every step, execute returns True only after the output state file
\* was written, nothing is written in a run where it returns False (nor
\* before it returns), and a step whose input file, and fallback file where
\* there is one, is missing returns False without any request to a device.
C37_OutputIffSuccess ==
    op \in StepOps =>
        /\ StepReturned("True") => OutputWritten
        /\ StepReturned("False") => ~OutputWritten
        /\ OutputWritten => StepReturned("True")
        /\ (InputAbsent /\ (StepReturned("True") \/ StepReturned("False"))) =>
              (StepReturned("False") /\ NothingSent)
        /\ (InputAbsent /\ pc # "load") =>
              (StepReturned("False") /\ NothingSent)

C37_Witness ==
    /\ op = "step02" /\ InputAbsent /\ interfaces # <<>>
    /\ StepReturned("False") /\ NothingSent /\ ~OutputWritten

====
